---- MODULE Spec2Model ----
(***************************************************************************)
(* Model of the multi-page atlas pager of delta-grande                     *)
(* (build_multi_atlas.py and its companions).                              *)
(*                                                                         *)
(* A run of build_multi_atlas is a sequence of steps over a file system    *)
(* (`disk`, `dirs`): the checks that precede any output, the composition   *)
(* of the pages in memory, the writes of the page files and of the index,  *)
(* and the optional removal of the legacy single sheet.  Pure functions    *)
(* (_compute_page_layout, ...) are operators; they are exercised on their  *)
(* own by small specifications over `call` / `ret`.                        *)
(***************************************************************************)
EXTENDS Integers, Sequences, FiniteSets, TLC

VARIABLES
    call,   \* pure-function specifications: the function called and its arguments
    ret,    \* pure-function specifications: what the call returned (Pending before)
    args,   \* build_multi_atlas: the arguments of the run
    disk,   \* the file system: path -> content, for the files that exist
    dirs,   \* the directories that exist
    pc,     \* position of the run
    loc,    \* local variables of the running function
    err,    \* the error the run raised (NoError while there is none)
    ops     \* the file-system operations the run has performed, in order

vars == <<call, ret, args, disk, dirs, pc, loc, err, ops>>

----------------------------------------------------------------------------
(* Helpers *)

Max(a, b) == IF a >= b THEN a ELSE b

Min(a, b) == IF a <= b THEN a ELSE b

\* Python's floor division a // b for b > 0 (TLA+ \div floors as well).
FloorDiv(a, b) == a \div b

----------------------------------------------------------------------------
(* _compute_page_layout  (src/build_multi_atlas.py 85-94) *)

Raised == [raised |-> TRUE]

\* A layout whose column count is taken from the frame height (axis mix-up).
ComputePageLayoutSwapped(frame_w, frame_h, max_dim) ==
    IF frame_w <= 0 \/ frame_h <= 0
    THEN Raised
    ELSE LET cols == Max(1, FloorDiv(max_dim, frame_h))
             rows == Max(1, FloorDiv(max_dim, frame_h))
         IN  [raised |-> FALSE, cols |-> cols, rows |-> rows,
              per_page |-> Max(1, cols * rows),
              page_w |-> cols * frame_w, page_h |-> rows * frame_h]

\* A layout that rounds the column and row counts up instead of down.
ComputePageLayoutCeil(frame_w, frame_h, max_dim) ==
    IF frame_w <= 0 \/ frame_h <= 0
    THEN Raised
    ELSE LET cols == Max(1, FloorDiv(max_dim + frame_w - 1, frame_w))
             rows == Max(1, FloorDiv(max_dim + frame_h - 1, frame_h))
         IN  [raised |-> FALSE, cols |-> cols, rows |-> rows,
              per_page |-> Max(1, cols * rows),
              page_w |-> cols * frame_w, page_h |-> rows * frame_h]

ComputePageLayout(frame_w, frame_h, max_dim) ==
    IF frame_w <= 0 \/ frame_h <= 0
    THEN Raised
    ELSE LET cols == Max(1, FloorDiv(max_dim, frame_w))
             rows == Max(1, FloorDiv(max_dim, frame_h))
         IN  [raised |-> FALSE, cols |-> cols, rows |-> rows,
              per_page |-> Max(1, cols * rows),
              page_w |-> cols * frame_w, page_h |-> rows * frame_h]

----------------------------------------------------------------------------
(* Specification of the layout function alone *)

LayMaxFrame == 4
LayMaxDim == 6

Idle == "idle"

\* The value of `ret` before the call has returned.
Pending == [pending |-> TRUE]

LayoutInit ==
    /\ call \in [fn : {"_compute_page_layout"},
                 frame_w : (-1) .. LayMaxFrame,
                 frame_h : (-1) .. LayMaxFrame,
                 max_dim : 1 .. LayMaxDim]
    /\ ret = Pending
    /\ args = Idle /\ disk = Idle /\ dirs = Idle
    /\ pc = Idle /\ loc = Idle /\ err = Idle /\ ops = Idle

LayoutCall ==
    /\ ret = Pending
    /\ ret' = ComputePageLayout(call.frame_w, call.frame_h, call.max_dim)
    /\ UNCHANGED <<call, args, disk, dirs, pc, loc, err, ops>>

LayoutNext == LayoutCall

SpecLayout == LayoutInit /\ [][LayoutNext]_vars

Returned == ret # Pending

\* C1: for fw >= 1, fh >= 1, D >= 1 the layout is cols = max(1, floor(D/fw)),
\* rows = max(1, floor(D/fh)), per_page = cols*rows, page_w = cols*fw,
\* page_h = rows*fh; for fw <= 0 or fh <= 0 the call raises.  floor(D/f) is
\* stated by its defining inequalities, n*f <= D < (n+1)*f.
IsFloorOrOne(n, d, f) ==
    IF d < f THEN n = 1 ELSE n >= 1 /\ n * f <= d /\ d < (n + 1) * f

C1_LayoutFormula ==
    Returned =>
        IF call.frame_w >= 1 /\ call.frame_h >= 1
        THEN /\ ~ret.raised
             /\ IsFloorOrOne(ret.cols, call.max_dim, call.frame_w)
             /\ IsFloorOrOne(ret.rows, call.max_dim, call.frame_h)
             /\ ret.per_page = ret.cols * ret.rows
             /\ ret.page_w = ret.cols * call.frame_w
             /\ ret.page_h = ret.rows * call.frame_h
        ELSE ret = Raised

C1_Witness ==
    /\ Returned /\ ~ret.raised
    /\ call.frame_w = 2 /\ call.frame_h = 3 /\ call.max_dim = 6
    /\ ret.cols = 3 /\ ret.rows = 2 /\ ret.per_page = 6

----------------------------------------------------------------------------
(* File names.  A name is the sequence of its characters, so that the       *)
(* suffix tests, the page-name format and the natural sort key are computed *)
(* from the characters as the code computes them.                           *)

DigitChars == <<"0", "1", "2", "3", "4", "5", "6", "7", "8", "9">>

\* Code points of the characters the model uses (Python compares strings by
\* code point).  "^2" stands for the one character U+00B2, superscript two.
OrdTable ==
    [c \in {"^2", "-", ".", "0", "1", "2", "3", "4", "5", "6", "7", "8", "9",
            "A", "F", "P", "S", "_",
            "a", "b", "c", "e", "f", "g", "h", "j", "l", "n", "o", "p", "s",
            "t", "w", "y"} |->
        CASE c = "^2" -> 178
          [] c = "-" -> 45 [] c = "." -> 46
          [] c = "0" -> 48 [] c = "1" -> 49 [] c = "2" -> 50 [] c = "3" -> 51
          [] c = "4" -> 52 [] c = "5" -> 53 [] c = "6" -> 54 [] c = "7" -> 55
          [] c = "8" -> 56 [] c = "9" -> 57
          [] c = "A" -> 65 [] c = "F" -> 70 [] c = "P" -> 80 [] c = "S" -> 83
          [] c = "_" -> 95
          [] c = "a" -> 97 [] c = "b" -> 98 [] c = "c" -> 99 [] c = "e" -> 101
          [] c = "f" -> 102 [] c = "g" -> 103 [] c = "h" -> 104 [] c = "j" -> 106
          [] c = "l" -> 108 [] c = "n" -> 110 [] c = "o" -> 111 [] c = "p" -> 112
          [] c = "s" -> 115 [] c = "t" -> 116 [] c = "w" -> 119 [] c = "y" -> 121]

Ord(c) == OrdTable[c]

\* \d of the regular expressions on one character: a decimal digit.
IsDigit(c) == Ord(c) >= 48 /\ Ord(c) <= 57

\* str.isdigit() on one character: the decimal digits and the other digit
\* characters, such as the superscript digits, which \d does not match.
IsDigitChar(c) == IsDigit(c) \/ Ord(c) = 178

\* str.isdigit(): a non-empty string of digit characters.
isdigit(t) == t # <<>> /\ \A i \in DOMAIN t : IsDigitChar(t[i])

DigitValue(c) == Ord(c) - 48

\* str(n) for n >= 0, as characters.
RECURSIVE Decimal(_)
Decimal(n) ==
    IF n < 10 THEN <<DigitChars[n + 1]>>
    ELSE Decimal(n \div 10) \o <<DigitChars[(n % 10) + 1]>>

\* f"{n:02d}": at least two digits, zero padded.
TwoDigits(n) == IF n < 10 THEN <<"0">> \o Decimal(n) ELSE Decimal(n)

\* str.lower() on the characters the model uses.
Lower(c) ==
    IF Ord(c) < 65 \/ Ord(c) > 90 THEN c
    ELSE CASE c = "A" -> "a" [] c = "F" -> "f" [] c = "P" -> "p" [] c = "S" -> "s"

LowerSeq(s) == [i \in 1 .. Len(s) |-> Lower(s[i])]

\* The last n characters of s (all of s when it is shorter).
Suffix(s, n) == IF Len(s) <= n THEN s ELSE SubSeq(s, Len(s) - n + 1, Len(s))

\* Path.suffix: from the last dot on, when that dot is not the first character.
RECURSIVE LastDot(_, _)
LastDot(s, i) == IF i = 0 THEN 0 ELSE IF s[i] = "." THEN i ELSE LastDot(s, i - 1)

PathSuffix(name) ==
    LET d == LastDot(name, Len(name))
    IN  IF d <= 1 THEN <<>> ELSE SubSeq(name, d, Len(name))

DotPng == <<".", "p", "n", "g">>
DotWebp == <<".", "w", "e", "b", "p">>
SheetStem == <<"s", "h", "e", "e", "t">>
SheetWebp == SheetStem \o DotWebp
SheetJson == SheetStem \o <<".", "j", "s", "o", "n">>

\* f"{prefix}_{page_index:02d}.webp"
PageName(prefix, page_index) == prefix \o <<"_">> \o TwoDigits(page_index) \o DotWebp

----------------------------------------------------------------------------
(* natural_key  (src/build_multi_atlas.py 46-47) *)

\* The length of the run of digits (digit = TRUE) or non-digits that starts
\* at position i of s.
RECURSIVE RunLen(_, _, _)
RunLen(s, i, digit) ==
    IF i > Len(s) \/ IsDigit(s[i]) # digit THEN 0
    ELSE 1 + RunLen(s, i + 1, digit)

RECURSIVE IntOfDigits(_, _)
IntOfDigits(s, acc) ==
    IF s = <<>> THEN acc
    ELSE IntOfDigits(Tail(s), 10 * acc + DigitValue(Head(s)))

\* re.split(r"(\d+)", s) from position i on: text run, digit run, text run, ...
\* always starting and ending with a (possibly empty) text run; each digit
\* run becomes its integer value, each text run is lowercased.  A text run
\* that isdigit() accepts goes through int() as well, which raises
\* ValueError on it (it holds no decimal digit): the token [err |-> TRUE].
RECURSIVE SplitKey(_, _)
SplitKey(s, i) ==
    LET t == RunLen(s, i, FALSE)
        text == IF isdigit(SubSeq(s, i, i + t - 1)) THEN [err |-> TRUE]
                ELSE [txt |-> LowerSeq(SubSeq(s, i, i + t - 1))]
        j == i + t
    IN  IF j > Len(s) THEN <<text>>
        ELSE LET d == RunLen(s, j, TRUE)
             IN  <<text, [num |-> IntOfDigits(SubSeq(s, j, j + d - 1), 0)]>>
                     \o SplitKey(s, j + d)

\* natural_key(s) raises ValueError.
HasErr(key) == \E i \in DOMAIN key : "err" \in DOMAIN key[i]

KeyRaises(s) == \E key \in {SplitKey(s, 1)} : HasErr(key)

natural_key(s) ==
    CHOOSE r \in {IF HasErr(key) THEN Raised ELSE key : key \in {SplitKey(s, 1)}} : TRUE

\* Python's < on strings: by code point, a proper prefix first.
RECURSIVE TextLess(_, _)
TextLess(a, b) ==
    IF b = <<>> THEN FALSE
    ELSE IF a = <<>> THEN TRUE
    ELSE IF Ord(Head(a)) # Ord(Head(b)) THEN Ord(Head(a)) < Ord(Head(b))
    ELSE TextLess(Tail(a), Tail(b))

TokenLess(a, b) ==
    IF "num" \in DOMAIN a THEN a.num < b.num ELSE TextLess(a.txt, b.txt)

\* Python's < on the key lists: the first differing position decides, a
\* proper prefix is smaller.  Position parity fixes each token's type, so two
\* tokens at the same position are both numbers or both texts.
RECURSIVE KeyLess(_, _)
KeyLess(a, b) ==
    IF b = <<>> THEN FALSE
    ELSE IF a = <<>> THEN TRUE
    ELSE IF Head(a) # Head(b) THEN TokenLess(Head(a), Head(b))
    ELSE KeyLess(Tail(a), Tail(b))

\* The keys of the names of a listing, in the listing's order.
RECURSIVE KeysOf(_)
KeysOf(listing) ==
    IF listing = <<>> THEN <<>>
    ELSE <<natural_key(Head(listing))>> \o KeysOf(Tail(listing))

\* The 1-based position sorted() gives the j-th element of a list with these
\* keys: after every element with a smaller key, and after the earlier
\* elements with an equal key (the sort is stable).
SortedPos(keys, j) ==
    1 + Cardinality({m \in 1 .. Len(keys) :
                        \/ KeyLess(keys[m], keys[j])
                        \/ (m < j /\ ~KeyLess(keys[j], keys[m]))})

\* sorted(listing, key=natural_key) raises: the key of some name does.
SortRaises(listing) == \E i \in DOMAIN listing : KeyRaises(listing[i])

\* sorted(listing, key=natural_key), for a listing whose keys do not raise.
SortedByNaturalKey(listing) ==
    CHOOSE r \in
        {[i \in 1 .. Len(listing) |-> listing[CHOOSE j \in 1 .. Len(listing) : pos[j] = i]] :
            pos \in {[j \in 1 .. Len(listing) |-> SortedPos(keys, j)] :
                        keys \in {KeysOf(listing)}}} : TRUE

----------------------------------------------------------------------------
(* Images (PIL, mode RGBA).  A pixel is <<colour, alpha>>, both 8 bit; one  *)
(* colour channel stands for R, G and B, which PIL treats alike.  An image  *)
(* is [w, h, px] with px a function on (0..w-1) \X (0..h-1).                *)

Transparent == <<0, 0>>

Coords(w, h) == (0 .. (w - 1)) \X (0 .. (h - 1))

\* Image.new("RGBA", (w, h), (0, 0, 0, 0))
NewImage(w, h) == [w |-> w, h |-> h, px |-> [p \in Coords(w, h) |-> Transparent]]

\* PIL's 8-bit blend, BLEND(mask, in1, in2) = DIV255(in1*(255-mask) + in2*mask)
\* with DIV255(a) = (((a+128) >> 8) + (a+128)) >> 8.
Div255(a) == (((a + 128) \div 256) + (a + 128)) \div 256

Blend(mask, in1, in2) == Div255(in1 * (255 - mask) + in2 * mask)

\* One pixel of canvas.paste(tile, box, tile): the mask is the alpha band of
\* the tile, and every band of the canvas, alpha included, is blended with it.
PastePixel(dst, src) ==
    <<Blend(src[2], dst[1], src[1]), Blend(src[2], dst[2], src[2])>>

\* canvas.paste(tile, (dx, dy), tile): the tile's box clipped to the canvas.
Paste(canvas, tile, dx, dy) ==
    [canvas EXCEPT !.px =
        [p \in Coords(canvas.w, canvas.h) |->
            IF /\ dx <= p[1] /\ p[1] < dx + tile.w
               /\ dy <= p[2] /\ p[2] < dy + tile.h
            THEN PastePixel(canvas.px[p], tile.px[<<p[1] - dx, p[2] - dy>>])
            ELSE canvas.px[p]]]

\* im.crop((x0, y0, x1, y1)) for x0 <= x1, y0 <= y1: pixels outside the source
\* are transparent.
Crop(im, x0, y0, x1, y1) ==
    [w |-> x1 - x0, h |-> y1 - y0,
     px |-> [p \in Coords(x1 - x0, y1 - y0) |->
                LET q == <<p[1] + x0, p[2] + y0>>
                IN  IF q \in Coords(im.w, im.h) THEN im.px[q] ELSE Transparent]]

----------------------------------------------------------------------------
(* The file system.  A path is <<directory, name>>; `disk` maps the paths   *)
(* that exist to their content, `dirs` is the set of directories that       *)
(* exist.  An image file is [kind |-> "image", ok, im]: ok = FALSE is a     *)
(* file PIL cannot decode.  An index file is [kind |-> "json", ...].        *)

Exists(path) == path \in DOMAIN disk

ImageFile(im) == [kind |-> "image", ok |-> TRUE, im |-> im]

\* The disk with `content` written at `path` (created or overwritten).
WriteFile(d, path, content) ==
    [q \in DOMAIN d \cup {path} |-> IF q = path THEN content ELSE d[q]]

\* The disk with `path` unlinked.
Unlink(d, path) == [q \in DOMAIN d \ {path} |-> d[q]]

\* The names of the files of a folder.
NamesIn(folder) == {q[2] : q \in {r \in DOMAIN disk : r[1] = folder}}

\* Orders in which folder.iterdir() may list a set of names: the order is
\* the file system's.  All orders of up to MaxPermute names, two opposite
\* orders of a bigger set.
MaxPermute == 3

RECURSIVE SomeOrder(_)
SomeOrder(S) ==
    IF S = {} THEN <<>>
    ELSE CHOOSE r \in {<<x>> \o SomeOrder(S \ {x}) : x \in {CHOOSE y \in S : TRUE}} : TRUE

Reverse(s) == [i \in 1 .. Len(s) |-> s[Len(s) + 1 - i]]

ListingOrders(S) ==
    IF Cardinality(S) <= MaxPermute
    THEN {s \in [1 .. Cardinality(S) -> S] : \A x \in S : \E i \in DOMAIN s : s[i] = x}
    ELSE {SomeOrder(S), Reverse(SomeOrder(S))}

\* re.match(r"^sheet(_\d+)?\.webp$", name, re.IGNORECASE)
IsGeneratedSheet(name) ==
    LET l == LowerSeq(name)
        n == Len(l)
    IN  \/ l = SheetWebp
        \/ /\ n >= 12
           /\ SubSeq(l, 1, 6) = SheetStem \o <<"_">>
           /\ SubSeq(l, n - 4, n) = DotWebp
           /\ \A i \in 7 .. (n - 5) : IsDigit(l[i])

\* collect_frames  (src/build_multi_atlas.py 50-58), on the listing of the
\* folder: the .png files in natural order, or else the .webp files in
\* natural order without the generated sheets.
PngsOf(listing) ==
    LET IsPng(n) == LowerSeq(PathSuffix(n)) = DotPng
    IN  SelectSeq(listing, IsPng)

WebpsOf(listing) ==
    LET IsWebp(n) == LowerSeq(PathSuffix(n)) = DotWebp
    IN  SelectSeq(listing, IsWebp)

\* collect_frames raises: one of its two sorts does.
CollectRaises(listing) ==
    \/ SortRaises(PngsOf(listing))
    \/ PngsOf(listing) = <<>> /\ SortRaises(WebpsOf(listing))

collect_frames(listing) ==
    LET NotSheet(n) == ~IsGeneratedSheet(n)
    IN  IF CollectRaises(listing) THEN Raised
        ELSE IF PngsOf(listing) # <<>> THEN SortedByNaturalKey(PngsOf(listing))
        ELSE SelectSeq(SortedByNaturalKey(WebpsOf(listing)), NotSheet)

----------------------------------------------------------------------------
(* Index files (sheet.json).  A JSON number is <<n>> and null is <<>> where *)
(* the code converts the value with int(); a rectangle is a record over the *)
(* keys it holds, so that an absent key is an absent field.  Where the code *)
(* reads a field through `or`, 0 (or the empty name) stands for every falsy *)
(* value: absent, null, 0.                                                  *)

Rect(x, y, w, h) == [x |-> <<x>>, y |-> <<y>>, w |-> <<w>>, h |-> <<h>>]

Size(w, h) == [w |-> w, h |-> h]

NoError == [kind |-> "none", file |-> <<>>]

\* raise: the run ends with the error; nothing else changes.
Raise(kind, file) ==
    /\ pc' = "error"
    /\ err' = [kind |-> kind, file |-> file]
    /\ UNCHANGED <<call, ret, args, disk, dirs, loc, ops>>

\* The operations log with one more operation.
Logged(op, path) == Append(ops, [op |-> op, path |-> path])

\* out_dir.mkdir(parents=True, exist_ok=True)
Mkdir(dir) ==
    /\ dirs' = dirs \cup {dir}
    /\ ops' = IF dir \in dirs THEN ops ELSE Logged("mkdir", <<dir>>)

\* A file written (created or overwritten) at `path`.
Write(path, content) ==
    /\ disk' = WriteFile(disk, path, content)
    /\ ops' = Logged("write", path)

\* if path.exists(): path.unlink()
UnlinkIfExists(path) ==
    IF Exists(path)
    THEN disk' = Unlink(disk, path) /\ ops' = Logged("unlink", path)
    ELSE UNCHANGED <<disk, ops>>

OutPath(name) == <<args.out_dir, name>>

InPath(name) == <<args.input_folder, name>>

----------------------------------------------------------------------------
(* build_multi_atlas_from_frames  (src/build_multi_atlas.py 97-174) *)

\* frames[1:10] ends before this (0-based) index.
SampleEnd == 10

\* The frames the size validation opens, frames[1:10], as 1-based positions.
Sampled(frames) == 2 .. Min(Len(frames), SampleEnd)

\* Lines 98-119: collect the frames, take the frame size from the first,
\* validate the sampled frames, compute the layout, create the output folder.
FF_Begin ==
    /\ pc = "start"
    /\ args.mode = "from_frames"
    /\ \E listing \in ListingOrders(NamesIn(args.input_folder)) :
        \E frames \in {collect_frames(listing)} :
            IF CollectRaises(listing) THEN Raise("invalid_name", <<>>)
            ELSE IF frames = <<>> THEN Raise("no_frames", <<>>)
            ELSE
            LET first == disk[InPath(frames[1])]
            IN  IF ~first.ok THEN Raise("cannot_read", frames[1])
                ELSE
                LET frame_w == first.im.w
                    frame_h == first.im.h
                    Bad(i) == LET f == disk[InPath(frames[i])]
                              IN  ~f.ok \/ <<f.im.w, f.im.h>> # <<frame_w, frame_h>>
                    bad == {i \in Sampled(frames) : Bad(i)}
                IN  IF bad # {}
                    THEN LET i == CHOOSE j \in bad : \A k \in bad : j <= k
                         IN  Raise(IF disk[InPath(frames[i])].ok
                                   THEN "size_mismatch" ELSE "cannot_read",
                                   frames[i])
                    ELSE
                    LET lay == ComputePageLayout(frame_w, frame_h, args.max_dim)
                        total == Len(frames)
                    IN  IF lay.raised THEN Raise("invalid_frame_size", <<>>)
                        ELSE
                        /\ pc' = "ff_page"
                        /\ Mkdir(args.out_dir)
                        /\ loc' = [frames |-> frames,
                                   frame_w |-> frame_w, frame_h |-> frame_h,
                                   cols |-> lay.cols, rows |-> lay.rows,
                                   per_page |-> lay.per_page,
                                   page_w |-> lay.page_w, page_h |-> lay.page_h,
                                   total |-> total,
                                   page_count |-> FloorDiv(total + lay.per_page - 1,
                                                           lay.per_page),
                                   page_index |-> 0,
                                   pages |-> <<>>, out_frames |-> <<>>]
                        /\ UNCHANGED <<call, ret, args, disk, err>>

\* The index entry of a frame placed at (x, y) of page page_index, lines 138-148.
OutEntry(filename, page_index, x, y, frame_w, frame_h, spriteSourceSize, sourceSize) ==
    [filename |-> filename,
     page |-> page_index,
     frame |-> Rect(x, y, frame_w, frame_h),
     rotated |-> FALSE,
     trimmed |-> FALSE,
     spriteSourceSize |-> spriteSourceSize,
     sourceSize |-> sourceSize]

\* A grid position that never starts a new row.
CellOfSingleRow(within, cols, rows) == [col |-> within, row |-> 0]

\* A grid position that fills the page column by column (row and column
\* exchanged).
CellOfColumnMajor(within, cols, rows) == [col |-> within \div rows, row |-> within % rows]

\* Lines 129-130 and 235-236: the grid cell of the frame at position
\* `within` of its page, row by row.
CellOf(within, cols, rows) == [col |-> within % cols, row |-> within \div cols]

\* Lines 128-136: the pixel at p of a page after the first k frames of the
\* page have been pasted onto the blank canvas, in order.
RECURSIVE PagePixel(_, _, _)
PagePixel(page_frames, k, p) ==
    IF k = 0 THEN Transparent
    ELSE LET cell == CellOf(k - 1, loc.cols, loc.rows)
             x == cell.col * loc.frame_w
             y == cell.row * loc.frame_h
             im == disk[InPath(page_frames[k])].im
         IN  IF /\ x <= p[1] /\ p[1] < x + im.w
                /\ y <= p[2] /\ p[2] < y + im.h
             THEN PastePixel(PagePixel(page_frames, k - 1, p), im.px[<<p[1] - x, p[2] - y>>])
             ELSE PagePixel(page_frames, k - 1, p)

\* Lines 138-148: the index entry of the i-th frame (1-based) of the page.
PageEntry(page_frames, i) ==
    LET cell == CellOf(i - 1, loc.cols, loc.rows)
    IN  OutEntry(page_frames[i], loc.page_index,
                 cell.col * loc.frame_w, cell.row * loc.frame_h,
                 loc.frame_w, loc.frame_h,
                 Rect(0, 0, loc.frame_w, loc.frame_h),
                 Size(loc.frame_w, loc.frame_h))

\* Lines 121-154, one iteration of the page loop: compose the page in memory
\* (the loop stops at the first frame PIL cannot open) and save it.
FF_Page ==
    /\ pc = "ff_page"
    /\ LET start == loc.page_index * loc.per_page
           end == Min(loc.total, start + loc.per_page)
           page_name == PageName(args.prefix, loc.page_index)
       IN  \E page_frames \in {SubSeq(loc.frames, start + 1, end)} :
           LET unreadable == {i \in 1 .. Len(page_frames) : ~disk[InPath(page_frames[i])].ok}
           IN  IF unreadable # {}
               THEN Raise("cannot_read",
                          page_frames[CHOOSE i \in unreadable : \A j \in unreadable : i <= j])
               ELSE
               /\ Write(OutPath(page_name),
                        ImageFile([w |-> loc.page_w, h |-> loc.page_h,
                                   px |-> [p \in Coords(loc.page_w, loc.page_h) |->
                                             PagePixel(page_frames, Len(page_frames), p)]]))
               /\ loc' = [loc EXCEPT
                            !.out_frames = @ \o [i \in 1 .. Len(page_frames) |->
                                                    PageEntry(page_frames, i)],
                            !.pages = Append(@, [image |-> page_name,
                                                 size |-> Size(loc.page_w, loc.page_h)]),
                            !.page_index = @ + 1]
               /\ pc' = IF loc.page_index + 1 < loc.page_count THEN "ff_page" ELSE "ff_index"
               /\ UNCHANGED <<call, ret, args, dirs, err>>

\* Scale factors are fractions <<numerator, denominator>>.
One == <<1, 1>>

\* Lines 156-169: write the index.
FF_Index ==
    /\ pc = "ff_index"
    /\ Write(OutPath(SheetJson),
                 [kind |-> "json",
                  frames_kind |-> "list",
                  frames |-> loc.out_frames,
                  meta |-> [image |-> <<>>,
                            pages |-> loc.pages,
                            frame_count |-> loc.total,
                            cols |-> loc.cols,
                            rows |-> loc.rows,
                            frame_size |-> Size(loc.frame_w, loc.frame_h),
                            original_frame_size |-> Size(loc.frame_w, loc.frame_h),
                            scale |-> One]])
    /\ pc' = "ff_delete"
    /\ UNCHANGED <<call, ret, args, dirs, loc, err>>

\* Lines 171-174: remove the legacy single sheet of the output folder.
FF_Delete ==
    /\ pc = "ff_delete"
    /\ IF args.delete_old_single
       THEN UnlinkIfExists(OutPath(SheetWebp))
       ELSE UNCHANGED <<disk, ops>>
    /\ pc' = "done"
    /\ UNCHANGED <<call, ret, args, dirs, loc, err>>

----------------------------------------------------------------------------
(* build_multi_atlas_from_sheet  (src/build_multi_atlas.py 177-282) *)

\* entry.get("frame") or {}
SrcRect(entry) == IF "frame" \in DOMAIN entry THEN entry.frame ELSE << >>

HasKey(rect, k) == k \in DOMAIN rect

\* A first-rectangle read that falls back to 1 instead of 0.
FirstRectDimOne(entry, k) ==
    LET rect == SrcRect(entry)
    IN  IF HasKey(rect, k) /\ rect[k] # <<>> THEN rect[k][1] ELSE 1

\* frames[0].get("frame", {}).get(k) read through `or`: 0 when absent or null.
FirstRectDim(entry, k) ==
    LET rect == SrcRect(entry)
    IN  IF HasKey(rect, k) /\ rect[k] # <<>> THEN rect[k][1] ELSE 0

\* Lines 179-221: the checks on the legacy index and image, the frame size,
\* the layout, the output folder, the legacy image decoded, the blank pages.
FS_Begin ==
    /\ pc = "start"
    /\ args.mode = "from_sheet"
    /\ IF ~Exists(InPath(SheetJson)) THEN Raise("missing_json", SheetJson)
       ELSE
       LET sheet == disk[InPath(SheetJson)]
           meta == sheet.meta
           frames == sheet.frames
       IN  IF sheet.frames_kind # "list" \/ frames = <<>>
           THEN Raise("no_frames", SheetJson)
           ELSE
           LET image_name == IF meta.image # <<>> THEN meta.image ELSE SheetWebp
               found == Exists(InPath(image_name)) \/ Exists(InPath(SheetWebp))
               sheet_path == IF Exists(InPath(image_name))
                             THEN InPath(image_name) ELSE InPath(SheetWebp)
           IN  IF ~found THEN Raise("missing_image", image_name)
               ELSE
               LET fs == meta.frame_size
                   frame_w == IF fs.w # 0 THEN fs.w ELSE FirstRectDim(frames[1], "w")
                   frame_h == IF fs.h # 0 THEN fs.h ELSE FirstRectDim(frames[1], "h")
               IN  IF frame_w <= 0 \/ frame_h <= 0
                   THEN Raise("no_frame_size", SheetJson)
                   ELSE
                   LET lay == ComputePageLayout(frame_w, frame_h, args.max_dim)
                       total == Len(frames)
                       page_count == FloorDiv(total + lay.per_page - 1, lay.per_page)
                   IN  IF lay.raised THEN Raise("invalid_frame_size", <<>>)
                       ELSE IF ~disk[sheet_path].ok
                       THEN /\ pc' = "error"
                            /\ err' = [kind |-> "cannot_read", file |-> sheet_path[2]]
                            /\ Mkdir(args.out_dir)
                            /\ UNCHANGED <<call, ret, args, disk, loc>>
                       ELSE
                       /\ pc' = "fs_paste"
                       /\ Mkdir(args.out_dir)
                       /\ loc' = [meta |-> meta,
                                  frames |-> frames,
                                  sheet_path |-> sheet_path,
                                  sheet_im |-> disk[sheet_path].im,
                                  frame_w |-> frame_w, frame_h |-> frame_h,
                                  cols |-> lay.cols, rows |-> lay.rows,
                                  per_page |-> lay.per_page,
                                  page_w |-> lay.page_w, page_h |-> lay.page_h,
                                  total |-> total,
                                  page_count |-> page_count,
                                  idx |-> 0,
                                  page_index |-> 0,
                                  page_images |-> [i \in 1 .. page_count |->
                                                     NewImage(lay.page_w, lay.page_h)],
                                  pages |-> <<>>, out_frames |-> <<>>]
                       /\ UNCHANGED <<call, ret, args, disk, err>>

\* int(src_rect.get(k, default)): the default when the key is absent, the
\* number when it holds one; int() raises on null.
RectField(rect, k, default) ==
    IF ~HasKey(rect, k) THEN [ok |-> TRUE, v |-> default]
    ELSE IF rect[k] = <<>> THEN [ok |-> FALSE]
    ELSE [ok |-> TRUE, v |-> rect[k][1]]

\* A lookup that ignores the entry and always yields the default.
GetOrDefault(entry, k, default) == default

\* entry.get(k) or default
GetOr(entry, k, default) == IF k \in DOMAIN entry THEN entry[k] ELSE default

\* Lines 223-252, one iteration of the frame loop: crop the entry's source
\* rectangle from the legacy image, paste it at its cell, record it.
FS_Paste ==
    /\ pc = "fs_paste"
    /\ LET entry == loc.frames[loc.idx + 1]
           src_rect == SrcRect(entry)
           sx == RectField(src_rect, "x", 0)
           sy == RectField(src_rect, "y", 0)
           sw == RectField(src_rect, "w", loc.frame_w)
           sh == RectField(src_rect, "h", loc.frame_h)
       IN  IF ~(sx.ok /\ sy.ok /\ sw.ok /\ sh.ok)
           THEN Raise("bad_rect", GetOr(entry, "filename", <<>>))
           ELSE
           LET tile == Crop(loc.sheet_im, sx.v, sy.v, sx.v + sw.v, sy.v + sh.v)
               page_index == loc.idx \div loc.per_page
               within == loc.idx % loc.per_page
               cell == CellOf(within, loc.cols, loc.rows)
               dx == cell.col * loc.frame_w
               dy == cell.row * loc.frame_h
           IN  /\ loc' = [loc EXCEPT
                            !.page_images[page_index + 1] = Paste(@, tile, dx, dy),
                            !.out_frames = Append(@,
                                OutEntry(GetOr(entry, "filename", <<>>), page_index,
                                         dx, dy, loc.frame_w, loc.frame_h,
                                         GetOr(entry, "spriteSourceSize",
                                               Rect(0, 0, loc.frame_w, loc.frame_h)),
                                         GetOr(entry, "sourceSize",
                                               Size(loc.frame_w, loc.frame_h)))),
                            !.idx = @ + 1]
               /\ pc' = IF loc.idx + 1 < loc.total THEN "fs_paste" ELSE "fs_save"
               /\ UNCHANGED <<call, ret, args, disk, dirs, err, ops>>

\* Lines 255-259, one iteration of the save loop.
FS_Save ==
    /\ pc = "fs_save"
    /\ LET page_name == PageName(args.prefix, loc.page_index)
       IN  /\ Write(OutPath(page_name), ImageFile(loc.page_images[loc.page_index + 1]))
           /\ loc' = [loc EXCEPT
                        !.pages = Append(@, [image |-> page_name,
                                             size |-> Size(loc.page_w, loc.page_h)]),
                        !.page_index = @ + 1]
    /\ pc' = IF loc.page_index + 1 < loc.page_count THEN "fs_save" ELSE "fs_index"
    /\ UNCHANGED <<call, ret, args, dirs, err>>

\* Lines 261-274: write the index.
FS_Index ==
    /\ pc = "fs_index"
    /\ Write(OutPath(SheetJson),
                 [kind |-> "json",
                  frames_kind |-> "list",
                  frames |-> loc.out_frames,
                  meta |-> [image |-> <<>>,
                            pages |-> loc.pages,
                            frame_count |-> IF loc.meta.frame_count # 0
                                            THEN loc.meta.frame_count ELSE loc.total,
                            cols |-> loc.cols,
                            rows |-> loc.rows,
                            frame_size |-> Size(loc.frame_w, loc.frame_h),
                            original_frame_size |->
                                IF loc.meta.original_frame_size # Size(0, 0)
                                THEN loc.meta.original_frame_size
                                ELSE IF loc.meta.frame_size # Size(0, 0)
                                THEN loc.meta.frame_size
                                ELSE Size(loc.frame_w, loc.frame_h),
                            scale |-> IF loc.meta.scale[1] # 0
                                      THEN loc.meta.scale ELSE One]])
    /\ pc' = "fs_delete"
    /\ UNCHANGED <<call, ret, args, dirs, loc, err>>

\* Lines 276-282: remove the legacy sheet the run read.
\* A delete step that ignores delete_old_single.
FS_DeleteAlways ==
    /\ pc = "fs_delete"
    /\ UnlinkIfExists(loc.sheet_path)
    /\ pc' = "done"
    /\ UNCHANGED <<call, ret, args, dirs, loc, err>>

FS_Delete ==
    /\ pc = "fs_delete"
    /\ IF args.delete_old_single
       THEN UnlinkIfExists(loc.sheet_path)
       ELSE UNCHANGED <<disk, ops>>
    /\ pc' = "done"
    /\ UNCHANGED <<call, ret, args, dirs, loc, err>>

\* build_multi_atlas, line 290: a mode that is neither from_sheet nor from_frames.
UnknownMode ==
    /\ pc = "start"
    /\ args.mode \notin {"from_sheet", "from_frames"}
    /\ Raise("unknown_mode", <<>>)

----------------------------------------------------------------------------
(* The inputs of a run: the arguments and the content of the input folder. *)

MaxDim == 3         \* max_dim ranges over 1 .. MaxDim
MaxFrameDim == 2    \* frame widths and heights range over 1 .. MaxFrameDim
MaxFrames == 11     \* frame files of a from_frames run
MaxEntries == 4     \* frame entries of a legacy index
LegacyCols == 2     \* columns of the legacy single sheet

FrameSizes == (1 .. MaxFrameDim) \X (1 .. MaxFrameDim)

\* Pixel values of the source images: opaque, partly transparent, fully
\* transparent.
Palette == << <<200, 255>>, <<90, 128>>, <<0, 0>> >>

Seeds == 0 .. (Len(Palette) - 1)

\* A source image whose pixels run through the palette, starting at `seed`.
Pattern(w, h, seed) ==
    [w |-> w, h |-> h,
     px |-> [p \in Coords(w, h) |-> Palette[((p[1] + 2 * p[2] + seed) % Len(Palette)) + 1]]]

\* The k-th frame (0-based) is named f<k>.png.
FrameName(k) == <<"f">> \o Decimal(k) \o DotPng

LegacyWebp == <<"l", "e", "g", "a", "c", "y">> \o DotWebp

InDir == "in"
OutDir == "out"

Prefixes == {SheetStem}

\* Where the output goes and whether a single sheet.webp is already there:
\* the input folder or another folder, which exists only when it holds the
\* old sheet.
Places == {[out_dir |-> InDir, old |-> FALSE], [out_dir |-> InDir, old |-> TRUE],
           [out_dir |-> OutDir, old |-> FALSE], [out_dir |-> OutDir, old |-> TRUE]}

DefaultPlace == [out_dir |-> InDir, old |-> TRUE]

\* The settings of a run: the place and delete_old_single.
Settings == [place : Places, del : BOOLEAN]

DefaultSetting == [place |-> DefaultPlace, del |-> TRUE]

Args(mode, setting, prefix, max_dim) ==
    [mode |-> mode, input_folder |-> InDir, out_dir |-> setting.place.out_dir,
     prefix |-> prefix, max_dim |-> max_dim, delete_old_single |-> setting.del]

OldSheet == ImageFile(Pattern(1, 1, 0))

StartDirs(setting) ==
    {InDir} \cup (IF setting.place.old THEN {setting.place.out_dir} ELSE {})

\* What can be wrong with one frame file: nothing, another size, not
\* decodable; at the first frame, at either end of the validated sample, right
\* after the sample, or at the last frame.
FrameFaults(n) ==
    {[at |-> 0, kind |-> "none"]}
        \cup [at : {1, 2, SampleEnd, SampleEnd + 1, n} \cap (1 .. n),
              kind : {"size", "corrupt"}]

\* The input folder of a from_frames run: n frame files of size <<w, h>>, one
\* of them possibly faulty, and the old sheet.webp where the place has one.
FramesDisk(n, size, fault, place) ==
    LET File(k) ==
            IF fault.at = k /\ fault.kind = "size"
            THEN ImageFile(Pattern(size[1] + 1, size[2], k))
            ELSE [kind |-> "image", ok |-> ~(fault.at = k /\ fault.kind = "corrupt"),
                  im |-> Pattern(size[1], size[2], k)]
        paths == {<<InDir, FrameName(k - 1)>> : k \in 1 .. n}
                    \cup (IF place.old THEN {<<place.out_dir, SheetWebp>>} ELSE {})
    IN  [q \in paths |->
            IF q[2] = SheetWebp THEN OldSheet
            ELSE File(CHOOSE k \in 1 .. n : FrameName(k - 1) = q[2])]

\* Frame sizes other than 1 x 1 are run under the default setting, the other
\* settings with 1 x 1 frames.
FramesInit ==
    \E n \in 0 .. MaxFrames, size \in FrameSizes, setting \in Settings,
       prefix \in Prefixes, max_dim \in 1 .. MaxDim :
      \E fault \in FrameFaults(n) :
        /\ size = <<1, 1>> \/ setting = DefaultSetting
        /\ args = Args("from_frames", setting, prefix, max_dim)
        /\ disk = FramesDisk(n, size, fault, setting.place)
        /\ dirs = StartDirs(setting)

\* What can be wrong with a legacy folder: the index or the image missing,
\* the index without a frame list, the image under another name, an entry
\* without its rectangle or with a null in it.
SheetFaults(n) ==
    {[at |-> 0, kind |-> k] :
        k \in {"none", "no_json", "frames_absent", "frames_not_list",
               "named_image", "named_image_missing", "no_image", "image_corrupt"}}
        \cup [at : 1 .. n, kind : {"no_rect", "null_field"}]

\* The i-th (1-based) entry of a legacy index whose frames are rw x rh tiles
\* laid out row by row in LegacyCols columns.
LegacyEntry(i, rw, rh, fault) ==
    LET x == ((i - 1) % LegacyCols) * rw
        y == ((i - 1) \div LegacyCols) * rh
    IN  IF fault.at = i /\ fault.kind = "no_rect"
        THEN [filename |-> FrameName(i - 1)]
        ELSE IF fault.at = i /\ fault.kind = "null_field"
        THEN [filename |-> FrameName(i - 1),
              frame |-> [x |-> <<>>, y |-> <<y>>, w |-> <<rw>>, h |-> <<rh>>]]
        ELSE [filename |-> FrameName(i - 1), frame |-> Rect(x, y, rw, rh)]

LegacyImage(n, rw, rh, seed) ==
    Pattern(LegacyCols * rw, FloorDiv(n + LegacyCols - 1, LegacyCols) * rh, seed)

\* The input folder of a from_sheet run.  The legacy image is sheet.webp, or
\* legacy.webp when the index names it ("named_image"); with
\* "named_image_missing" the index names legacy.webp and only sheet.webp is
\* there.  In another output folder the old sheet is some other image.
SheetDisk(n, size, declared, seed, fault, place) ==
    LET named == fault.kind \in {"named_image", "named_image_missing"}
        json == [kind |-> "json",
                 frames_kind |-> CASE fault.kind = "frames_absent" -> "absent"
                                   [] fault.kind = "frames_not_list" -> "other"
                                   [] OTHER -> "list",
                 frames |-> IF fault.kind \in {"frames_absent", "frames_not_list"}
                            THEN <<>>
                            ELSE [i \in 1 .. n |-> LegacyEntry(i, size[1], size[2], fault)],
                 meta |-> [image |-> IF named THEN LegacyWebp ELSE <<>>,
                           frame_count |-> n,
                           frame_size |-> IF declared THEN Size(size[1], size[2])
                                          ELSE Size(0, 0),
                           original_frame_size |-> Size(0, 0),
                           scale |-> <<0, 1>>]]
        image == [kind |-> "image", ok |-> fault.kind # "image_corrupt",
                  im |-> LegacyImage(Max(n, 1), size[1], size[2], seed)]
        image_path == <<InDir, IF fault.kind = "named_image" THEN LegacyWebp ELSE SheetWebp>>
        paths == (IF fault.kind = "no_json" THEN {} ELSE {<<InDir, SheetJson>>})
                    \cup (IF fault.kind = "no_image" THEN {} ELSE {image_path})
                    \cup (IF place.old /\ place.out_dir # InDir
                          THEN {<<place.out_dir, SheetWebp>>} ELSE {})
    IN  [q \in paths |->
            IF q[2] = SheetJson THEN json
            ELSE IF q = image_path THEN image
            ELSE OldSheet]

\* The places of a from_sheet run: in the input folder the old sheet is the
\* legacy image itself.
SheetSettings == {s \in Settings : s.place.out_dir = InDir => s.place.old}

\* Frame sizes other than 1 x 1, pixel seeds other than 0 and undeclared frame
\* sizes are run under the default setting, the other settings with declared
\* 1 x 1 frames and seed 0.
SheetInit ==
    \E n \in 0 .. MaxEntries, size \in FrameSizes, declared \in BOOLEAN,
       seed \in Seeds, setting \in SheetSettings,
       prefix \in Prefixes, max_dim \in 1 .. MaxDim :
      \E fault \in SheetFaults(n) :
        /\ (size = <<1, 1>> /\ seed = 0 /\ declared) \/ setting = DefaultSetting
        /\ n = 0 => fault.kind = "none"
        /\ args = Args("from_sheet", setting, prefix, max_dim)
        /\ disk = SheetDisk(n, size, declared, seed, fault, setting.place)
        /\ dirs = StartDirs(setting)

OtherModeInit ==
    \E setting \in Settings, max_dim \in 1 .. MaxDim :
        /\ args = Args("from_folder", setting, SheetStem, max_dim)
        /\ disk = FramesDisk(1, <<1, 1>>, [at |-> 0, kind |-> "none"], setting.place)
        /\ dirs = StartDirs(setting)

Init ==
    /\ call = Idle
    /\ ret = Idle
    /\ pc = "start"
    /\ loc = [idx |-> 0]
    /\ err = NoError
    /\ ops = <<>>
    /\ (FramesInit \/ SheetInit \/ OtherModeInit)

Next ==
    \/ FF_Begin
    \/ FF_Page
    \/ FF_Index
    \/ FF_Delete
    \/ FS_Begin
    \/ FS_Paste
    \/ FS_Save
    \/ FS_Index
    \/ FS_Delete
    \/ UnknownMode

Spec == Init /\ [][Next]_vars

----------------------------------------------------------------------------
(* Properties of a build run *)

FromFrames == args.mode = "from_frames"

FromSheet == args.mode = "from_sheet"

\* The run has written its index (and every page before it).
IndexWritten == pc \in {"ff_delete", "fs_delete", "done"}

NewIndex == disk[OutPath(SheetJson)]

\* from_sheet: every entry of the legacy index has been pasted.
AllPasted == FromSheet /\ pc \in {"fs_save", "fs_index", "fs_delete", "done"}

\* The frame files of the input folder.
PngNames == {nm \in NamesIn(InDir) : LowerSeq(PathSuffix(nm)) = DotPng}

\* The files a from_frames run takes as frames: the .png files or, when there
\* is none, the .webp files that are not sheets written by an earlier run.
FrameFiles ==
    IF PngNames # {} THEN PngNames
    ELSE {nm \in NamesIn(InDir) :
            LowerSeq(PathSuffix(nm)) = DotWebp /\ ~IsGeneratedSheet(nm)}

\* The number of frames of the ordered input, and the name of its i-th
\* (0-based) frame: the frame files f0.png, f1.png, ... in natural order, or
\* the entries of the legacy index as read.
InputCount == IF FromFrames THEN Cardinality(PngNames) ELSE Len(loc.frames)

InputName(i) == IF FromFrames THEN FrameName(i) ELSE loc.frames[i + 1].filename

Wrote(path) == \E k \in DOMAIN ops : ops[k] = [op |-> "write", path |-> path]

NoWrite == \A k \in DOMAIN ops : ops[k].op # "write"

\* The pixels of grid cell c (0-based, row by row) of a page.
CellPixels(c, cols, fw, fh) ==
    {p \in Coords((cols + 1) * fw + fw, ((c \div cols) + 2) * fh) :
        /\ (c % cols) * fw <= p[1] /\ p[1] < ((c % cols) + 1) * fw
        /\ (c \div cols) * fh <= p[2] /\ p[2] < ((c \div cols) + 1) * fh}

\* C2: for N >= 1 frames and capacity per_page, a run produces
\* ceil(N / per_page) pages; each page but the last records per_page frames,
\* the last N - (count-1)*per_page of them (from 1 to per_page); every page
\* has the size page_w x page_h; every grid cell of the last page that
\* receives no frame is fully transparent.
C2_PageCountAndFill ==
    IndexWritten =>
        LET idx == NewIndex
            N == InputCount
            per_page == loc.per_page
            count == Len(idx.meta.pages)
            lastFill == N - (count - 1) * per_page
            OnPage(q) == Cardinality({i \in DOMAIN idx.frames : idx.frames[i].page = q})
            last == disk[OutPath(PageName(args.prefix, count - 1))].im
        IN  /\ N >= 1
            /\ (count - 1) * per_page < N /\ N <= count * per_page
            /\ 1 <= lastFill /\ lastFill <= per_page
            /\ ~Exists(OutPath(PageName(args.prefix, count)))
            /\ \A q \in 0 .. (count - 1) :
                /\ Wrote(OutPath(PageName(args.prefix, q)))
                /\ idx.meta.pages[q + 1] =
                       [image |-> PageName(args.prefix, q),
                        size |-> Size(loc.page_w, loc.page_h)]
                /\ disk[OutPath(PageName(args.prefix, q))].im.w = loc.page_w
                /\ disk[OutPath(PageName(args.prefix, q))].im.h = loc.page_h
                /\ OnPage(q) = IF q < count - 1 THEN per_page ELSE lastFill
            /\ \A c \in lastFill .. (per_page - 1) :
                \A p \in CellPixels(c, loc.cols, loc.frame_w, loc.frame_h) :
                    p \in DOMAIN last.px /\ last.px[p] = Transparent

\* C3: the i-th frame (0-based) of the ordered input is recorded once, at
\* position i of the index, on page i div per_page, with the rectangle
\* x = ((i mod per_page) mod cols) * fw, y = ((i mod per_page) div cols) * fh,
\* w = fw, h = fh, where cols = max(1, max_dim div fw), rows likewise and
\* per_page = cols * rows.
C3_SequentialFill ==
    IndexWritten =>
        LET idx == NewIndex
            fw == idx.meta.frame_size.w
            fh == idx.meta.frame_size.h
            cols == Max(1, args.max_dim \div fw)
            rows == Max(1, args.max_dim \div fh)
            per_page == cols * rows
        IN  /\ Len(idx.frames) = InputCount
            /\ idx.meta.cols = cols /\ idx.meta.rows = rows
            /\ \A i \in 0 .. (InputCount - 1) :
                LET e == idx.frames[i + 1]
                IN  /\ e.filename = InputName(i)
                    /\ e.page = i \div per_page
                    /\ e.frame = Rect(((i % per_page) % cols) * fw,
                                      ((i % per_page) \div cols) * fh, fw, fh)

\* 5 frames of 1 x 1 at max_dim 2: frames 0..3 fill the 2 x 2 grid of page 0,
\* frame 4 is at (0, 0) of page 1.
C3_Witness ==
    /\ FromFrames /\ IndexWritten
    /\ InputCount = 5 /\ args.max_dim = 2
    /\ NewIndex.meta.frame_size = Size(1, 1)
    /\ NewIndex.frames[2].frame = Rect(1, 0, 1, 1)
    /\ NewIndex.frames[3].frame = Rect(0, 1, 1, 1)
    /\ NewIndex.frames[4].frame = Rect(1, 1, 1, 1) /\ NewIndex.frames[4].page = 0
    /\ NewIndex.frames[5].frame = Rect(0, 0, 1, 1) /\ NewIndex.frames[5].page = 1

\* C5: re-paging keeps the frame list: the new index has as many entries as
\* the legacy index, and its i-th entry carries the i-th legacy filename.
C5_FrameListPreserved ==
    (FromSheet /\ IndexWritten) =>
        /\ Len(NewIndex.frames) = Len(loc.frames)
        /\ \A i \in DOMAIN loc.frames :
              NewIndex.frames[i].filename = loc.frames[i].filename

\* Four legacy frames re-paged one frame per page.
C5_Witness ==
    /\ FromSheet /\ pc = "done"
    /\ Len(loc.frames) = 4 /\ Len(NewIndex.meta.pages) = 4
    /\ NewIndex.frames[4].filename = FrameName(3)

\* The legacy entry holds a complete source rectangle.
FullRect(entry) ==
    /\ "frame" \in DOMAIN entry
    /\ \A k \in {"x", "y", "w", "h"} : k \in DOMAIN entry.frame /\ entry.frame[k] # <<>>

\* C6: re-paging is pixel exact: every pixel of every legacy source rectangle
\* has the same colour and alpha at the same offset of the frame's new
\* rectangle on its new page.
C6_PixelExact ==
    AllPasted =>
        \A i \in DOMAIN loc.frames :
            FullRect(loc.frames[i]) =>
                LET src == loc.frames[i].frame
                    dst == loc.out_frames[i]
                    page == loc.page_images[dst.page + 1]
                IN  \A u \in 0 .. (src.w[1] - 1), v \in 0 .. (src.h[1] - 1) :
                        page.px[<<dst.frame.x[1] + u, dst.frame.y[1] + v>>]
                            = loc.sheet_im.px[<<src.x[1] + u, src.y[1] + v>>]

\* The frame files whose size is not the first frame's.
Mismatching ==
    {nm \in PngNames :
        LET f == disk[InPath(nm)]
            first == disk[InPath(FrameName(0))]
        IN  f.ok /\ first.ok /\ <<f.im.w, f.im.h>> # <<first.im.w, first.im.h>>}

\* C7: from_frames with a frame, at any index, whose size is not the first
\* frame's: the run aborts with an error naming an offending file and writes
\* no page and no index.
C7_AnyMismatchAborts ==
    (FromFrames /\ pc # "start" /\ Mismatching # {}) =>
        /\ pc = "error"
        /\ err.kind = "size_mismatch"
        /\ err.file \in Mismatching
        /\ NoWrite

\* The run failed while reading or pasting a frame.
FrameFailure == pc = "error" /\ err.kind \in {"cannot_read", "bad_rect"}

\* C8: nothing is written before every page and the whole index are composed
\* in memory: a run that fails while reading or pasting a frame has written
\* no page and no index.
C8_NoWriteOnFrameFailure == FrameFailure => NoWrite

\* A frame dimension is declared in meta or held by the first legacy entry.
DimKnown(sheet, k) ==
    \/ sheet.meta.frame_size[k] > 0
    \/ /\ "frame" \in DOMAIN sheet.frames[1]
       /\ k \in DOMAIN sheet.frames[1].frame
       /\ sheet.frames[1].frame[k] # <<>>
       /\ sheet.frames[1].frame[k][1] > 0

\* The error the input of a run calls for, among those raised before any
\* output: from_sheet without sheet.json; with "frames" absent, not a list or
\* empty; with neither the named image nor sheet.webp; with a frame size
\* neither declared nor derivable from the first entry; from_frames without
\* a frame file; a mode that is neither.
ListedError ==
    IF FromSheet
    THEN IF ~Exists(InPath(SheetJson)) THEN "missing_json"
         ELSE LET sheet == disk[InPath(SheetJson)]
                  named == IF sheet.meta.image # <<>> THEN sheet.meta.image ELSE SheetWebp
              IN  IF sheet.frames_kind # "list" \/ Len(sheet.frames) = 0
                  THEN "no_frames"
                  ELSE IF ~Exists(InPath(named)) /\ ~Exists(InPath(SheetWebp))
                  THEN "missing_image"
                  ELSE IF ~(DimKnown(sheet, "w") /\ DimKnown(sheet, "h"))
                  THEN "no_frame_size"
                  ELSE "none"
    ELSE IF FromFrames
    THEN IF FrameFiles = {} THEN "no_frames" ELSE "none"
    ELSE "unknown_mode"

LegacyPath == IF FromSheet THEN loc.sheet_path ELSE OutPath(SheetWebp)

\* C10: the legacy image is removed only when delete_old_single is true, and
\* only after every page and the index have been written; a run that ended in
\* an error, or with delete_old_single false, has removed nothing.
C10_LegacyDeletedLast ==
    /\ \A k \in DOMAIN ops :
          ops[k].op = "unlink" =>
              /\ args.delete_old_single
              /\ pc = "done" /\ k = Len(ops)
              /\ ops[k].path = LegacyPath
              /\ ~Exists(LegacyPath)
              /\ Len(NewIndex.meta.pages) = loc.page_count
              /\ \A q \in 0 .. (loc.page_count - 1) :
                    \E j \in 1 .. (k - 1) :
                        ops[j] = [op |-> "write",
                                  path |-> OutPath(PageName(args.prefix, q))]
              /\ \E j \in 1 .. (k - 1) :
                    ops[j] = [op |-> "write", path |-> OutPath(SheetJson)]
    /\ (pc = "error" \/ ~args.delete_old_single) =>
          \A k \in DOMAIN ops : ops[k].op # "unlink"

\* A legacy sheet re-paged into two or more pages and then removed.
C10_Witness ==
    /\ FromSheet /\ pc = "done" /\ args.delete_old_single
    /\ loc.page_count >= 2
    /\ ops[Len(ops)] = [op |-> "unlink", path |-> loc.sheet_path]
    /\ ~Exists(loc.sheet_path)

----------------------------------------------------------------------------
(* Frame collection on its own: sorted(..., key=natural_key) and the two    *)
(* collect_frames (src/build_multi_atlas.py 50-58, src/build_spritesheet.py *)
(* 37-47) applied to two listings of the same set of names.                 *)

\* str.endswith(suffix)
EndsWith(s, suffix) == Suffix(s, Len(suffix)) = suffix

\* The value a call returned.
Result(v) == [raised |-> FALSE, out |-> v]

\* sorted(listing, key=natural_key) as a call: the sorted list, or the
\* ValueError of a key.
SortedCallResult(listing) ==
    IF SortRaises(listing) THEN Raised ELSE Result(SortedByNaturalKey(listing))

\* collect_frames of build_multi_atlas.py as a call.
CollectResult(listing) ==
    IF CollectRaises(listing) THEN Raised ELSE Result(collect_frames(listing))

\* collect_frames of build_spritesheet.py (lines 37-47) on the listing of the
\* folder: the names ending in .webp or .png whatever their case, in natural
\* order; RuntimeError when there is none.
spritesheet_collect_frames(listing) ==
    LET Supported(f) == \/ EndsWith(LowerSeq(f), DotWebp)
                        \/ EndsWith(LowerSeq(f), DotPng)
    IN  CHOOSE r \in
            {IF files = <<>> \/ SortRaises(files) THEN Raised
             ELSE Result(SortedByNaturalKey(files)) :
                files \in {SelectSeq(listing, Supported)}} : TRUE

MaxNames == 3       \* a folder holds 1 .. MaxNames of the names of NamePool

Name_f1 == <<"f", "1">> \o DotPng

Name_f2 == <<"f", "2">> \o DotPng

Name_f10 == <<"f", "1", "0">> \o DotPng

Name_f01 == <<"f", "0", "1">> \o DotPng

Name_F2 == <<"F", "2">> \o DotPng

Name_sup == <<"^2", "1">> \o DotPng

Name_a == <<"a">> \o DotWebp

NamePool ==
    {Name_f1, Name_f2, Name_f10, Name_f01, Name_F2, Name_sup, Name_a,
     PageName(SheetStem, 0)}

NameCalls == {"sorted", "collect_frames", "spritesheet_collect_frames"}

\* A folder, two orders in which the file system may list it, and the call.
NamesInit ==
    /\ \E S \in SUBSET NamePool :
        /\ Cardinality(S) \in 1 .. MaxNames
        /\ \E second \in ListingOrders(S), fn \in NameCalls :
              call = [fn |-> fn, names |-> S,
                      first |-> SomeOrder(S), second |-> second]
    /\ ret = Pending
    /\ args = Idle /\ disk = Idle /\ dirs = Idle /\ pc = Idle
    /\ loc = Idle /\ err = Idle /\ ops = Idle

SortedCall ==
    /\ call.fn = "sorted" /\ ret = Pending
    /\ ret' = [a |-> SortedCallResult(call.first),
               b |-> SortedCallResult(call.second)]
    /\ UNCHANGED <<call, args, disk, dirs, pc, loc, err, ops>>

CollectCall ==
    /\ call.fn = "collect_frames" /\ ret = Pending
    /\ ret' = [a |-> CollectResult(call.first),
               b |-> CollectResult(call.second)]
    /\ UNCHANGED <<call, args, disk, dirs, pc, loc, err, ops>>

SpritesheetCollectCall ==
    /\ call.fn = "spritesheet_collect_frames" /\ ret = Pending
    /\ ret' = [a |-> spritesheet_collect_frames(call.first),
               b |-> spritesheet_collect_frames(call.second)]
    /\ UNCHANGED <<call, args, disk, dirs, pc, loc, err, ops>>

NamesNext == SortedCall \/ CollectCall \/ SpritesheetCollectCall

SpecNames == NamesInit /\ [][NamesNext]_vars

\* The key of a name is <<text, number, text>>.
OneNumber(name) == Len(SplitKey(name, 1)) = 3

\* The 1-based position of a name in a list that holds it.
PosIn(list, name) == CHOOSE i \in DOMAIN list : list[i] = name

\* C11: sorting by natural_key succeeds for every set of names; the tokens
\* of two keys at the same position are both numbers or both texts; the
\* sorted list is in key order; of two names that differ only in the value
\* of their digit run, the numerically smaller comes first.
C11_NaturalOrder ==
    (call.fn = "sorted" /\ ret # Pending) =>
        /\ ~ret.b.raised
        /\ \A m, n \in call.names :
              \A i \in 1 .. Min(Len(natural_key(m)), Len(natural_key(n))) :
                  DOMAIN natural_key(m)[i] = DOMAIN natural_key(n)[i]
        /\ \A i, j \in DOMAIN ret.b.out :
              i < j => ~KeyLess(natural_key(ret.b.out[j]), natural_key(ret.b.out[i]))
        /\ \A m, n \in call.names :
              (/\ OneNumber(m) /\ OneNumber(n)
               /\ natural_key(m)[1] = natural_key(n)[1]
               /\ natural_key(m)[3] = natural_key(n)[3]
               /\ natural_key(m)[2].num < natural_key(n)[2].num)
                  => PosIn(ret.b.out, m) < PosIn(ret.b.out, n)

\* C12: the list collect_frames returns depends on the set of names only:
\* the two listings of the folder give the same list.
C12_OrderIndependent ==
    (call.fn \in {"collect_frames", "spritesheet_collect_frames"} /\ ret # Pending)
        => ret.a = ret.b

----------------------------------------------------------------------------
(* from_frames run twice in a row on the same folder, the output going to   *)
(* the input folder: the second run starts from the disk the first left.    *)

MaxTwiceFrames == 2     \* frame files of a folder that is built twice

PagePrefix == <<"p", "g">>

TwicePrefixes == {SheetStem, PagePrefix}

\* The prefix of the pages build_1024_variant writes
\* (src/scale_completed_overlay_atlases_1024.py 144).
Sheet1024 == SheetStem \o <<"_", "1", "0", "2", "4">>

\* The k-th frame (0-based) of a folder of .webp frames is a<k>.webp.
WebpFrameName(k) == <<"a">> \o Decimal(k) \o DotWebp

\* Files of earlier runs that may lie in the folder: the single sheet.webp,
\* a downscaled page sheet_1024_00.webp.
TwiceExtras == SUBSET {SheetWebp, PageName(Sheet1024, 0)}

TwiceDisk(webp, n, size, extras) ==
    LET FrameNameOf(k) == IF webp THEN WebpFrameName(k) ELSE FrameName(k)
        paths == {<<InDir, FrameNameOf(k - 1)>> : k \in 1 .. n}
                    \cup {<<InDir, x>> : x \in extras}
    IN  [q \in paths |->
            IF q[2] \in extras THEN OldSheet
            ELSE ImageFile(Pattern(size[1], size[2],
                                   CHOOSE k \in 1 .. n : FrameNameOf(k - 1) = q[2]))]

TwiceInit ==
    /\ call = Idle
    /\ ret = [run |-> 1]
    /\ pc = "start"
    /\ loc = [idx |-> 0]
    /\ err = NoError
    /\ ops = <<>>
    /\ dirs = {InDir}
    /\ \E webp \in BOOLEAN, n \in 1 .. MaxTwiceFrames, size \in FrameSizes,
          extras \in TwiceExtras, prefix \in TwicePrefixes,
          max_dim \in 1 .. MaxDim, del \in BOOLEAN :
        /\ args = [mode |-> "from_frames", input_folder |-> InDir, out_dir |-> InDir,
                   prefix |-> prefix, max_dim |-> max_dim, delete_old_single |-> del]
        /\ disk = TwiceDisk(webp, n, size, extras)

\* The first run is over: build_multi_atlas is called again with the same
\* arguments.  The frame list and the index of the first run are kept for
\* comparison.
Rerun ==
    /\ pc = "done"
    /\ ret.run = 1
    /\ ret' = [run |-> 2, frames |-> loc.frames, index |-> disk[OutPath(SheetJson)]]
    /\ pc' = "start"
    /\ loc' = [idx |-> 0]
    /\ ops' = <<>>
    /\ UNCHANGED <<call, args, disk, dirs, err>>

TwiceNext == FF_Begin \/ FF_Page \/ FF_Index \/ FF_Delete \/ Rerun

SpecTwice == TwiceInit /\ [][TwiceNext]_vars

\* A name the pager writes: sheet.webp, a page <prefix>_NN.webp of the run's
\* prefix, a downscaled page sheet_1024_NN.webp.
PagerName(name) ==
    \/ name = SheetWebp
    \/ \E k \in 0 .. 99 : name \in {PageName(args.prefix, k), PageName(Sheet1024, k)}

\* The run has collected its frames.
Collected == pc \in {"ff_page", "ff_index", "ff_delete", "done"}

\* C13: no run collects a file the pager writes, and a second run in the same
\* folder succeeds, collects the frame list of the first run and writes the
\* index the first run wrote.
C13_RerunCollectsSameFrames ==
    /\ Collected => \A i \in DOMAIN loc.frames : ~PagerName(loc.frames[i])
    /\ ret.run = 2 =>
        /\ pc # "error"
        /\ Collected => loc.frames = ret.frames
        /\ IndexWritten => NewIndex = ret.index

----------------------------------------------------------------------------
(* build_1024_variant  (src/scale_completed_overlay_atlases_1024.py 81-165) *)

\* round(n / d) for d > 0, as Python rounds: to the nearest integer, an
\* exact half to the even one.
RoundHalfUp(n, d) == FloorDiv(2 * n + d, 2 * d)

round(n, d) ==
    LET q == FloorDiv(n, d)
        r == n - q * d
    IN  IF 2 * r < d THEN q
        ELSE IF 2 * r > d THEN q + 1
        ELSE IF q % 2 = 0 THEN q ELSE q + 1

\* scale = 0.5, line 96, as the fraction <<1, 2>>.
Scale1024 == <<1, 2>>

\* _scale_edge(v, scale) == int(round(v * scale))
ScaleEdge(v, scale) == round(v * scale[1], scale[2])

\* The product of two fractions, reduced by the factors of two the model's
\* scales hold.
RECURSIVE Reduced(_)
Reduced(f) ==
    IF f[1] # 0 /\ f[1] % 2 = 0 /\ f[2] % 2 = 0
    THEN Reduced(<<f[1] \div 2, f[2] \div 2>>) ELSE f

Times(f, g) == Reduced(<<f[1] * g[1], f[2] * g[2]>>)

\* _resize_rgba_premultiplied(im, (w, h)): an image of the new size.  The
\* resampled pixel values are not computed: in place of its pixels the image
\* records what it was resampled from.
ResizeRgbaPremultiplied(im, w, h) == [w |-> w, h |-> h, resampled |-> im]

Sheet1024Json == Sheet1024 \o <<".", "j", "s", "o", "n">>

\* int(fr.get(k) or 0): 0 when the key is absent, null or 0.
NumOrZero(rect, k) ==
    IF HasKey(rect, k) /\ rect[k] # <<>> THEN rect[k][1] ELSE 0

\* A copy of the entry that keeps only its name and takes the new rectangle.
NewEntryFresh(entry, frame) == [filename |-> entry.filename, frame |-> frame]

\* new_entry = dict(entry); new_entry["frame"] = frame  (lines 138-139)
NewEntry(entry, frame) ==
    [k \in DOMAIN entry \cup {"frame"} |-> IF k = "frame" THEN frame ELSE entry[k]]

\* Lines 125-140, one entry: the four edges scaled, the size clamped to 1.
ScaledEntry(entry, scale) ==
    LET fr == SrcRect(entry)
        x == NumOrZero(fr, "x")
        y == NumOrZero(fr, "y")
        w == NumOrZero(fr, "w")
        h == NumOrZero(fr, "h")
        x0 == ScaleEdge(x, scale)
        y0 == ScaleEdge(y, scale)
        x1 == ScaleEdge(x + w, scale)
        y1 == ScaleEdge(y + h, scale)
    IN  NewEntry(entry, Rect(x0, y0, Max(1, x1 - x0), Max(1, y1 - y0)))

\* Lines 115-121, one page: the page image resized to the scaled size of the
\* page, the size read from the index or, when it declares none, from the
\* image.
ScaledPage(page, im, scale) ==
    LET pw == IF page.size.w # 0 THEN page.size.w ELSE im.w
        ph == IF page.size.h # 0 THEN page.size.h ELSE im.h
    IN  ResizeRgbaPremultiplied(im, Max(1, ScaleEdge(pw, scale)),
                                Max(1, ScaleEdge(ph, scale)))

\* What stops the loading of a source page (lines 100-107), "none" if nothing.
PageLoadError(page) ==
    IF page.image = <<>> THEN "page_no_name"
    ELSE IF ~Exists(InPath(page.image)) THEN "missing_page"
    ELSE IF ~disk[InPath(page.image)].ok THEN "cannot_read"
    ELSE "none"

\* Lines 82-140: the checks on the index, the source pages loaded, the new
\* pages and the new frame list computed in memory.
SC_Begin ==
    /\ pc = "start"
    /\ args.mode = "build_1024_variant"
    /\ IF ~Exists(InPath(SheetJson)) THEN Raise("missing_json", SheetJson)
       ELSE
       LET data == disk[InPath(SheetJson)]
           meta == data.meta
       IN  IF "pages" \notin DOMAIN meta \/ meta.pages = <<>>
           THEN Raise("no_pages", SheetJson)
           ELSE IF data.frames_kind # "list" \/ data.frames = <<>>
           THEN Raise("no_frames", SheetJson)
           ELSE
           LET pages == meta.pages
               bad == {i \in DOMAIN pages : PageLoadError(pages[i]) # "none"}
           IN  IF bad # {}
               THEN LET i == CHOOSE j \in bad : \A k \in bad : j <= k
                    IN  Raise(PageLoadError(pages[i]), pages[i].image)
               ELSE
               /\ pc' = "sc_page"
               /\ loc' = [meta |-> meta,
                          page_count |-> Len(pages),
                          new_page_images |->
                              [i \in DOMAIN pages |->
                                  ScaledPage(pages[i], disk[InPath(pages[i].image)].im,
                                             Scale1024)],
                          new_frames |->
                              [i \in DOMAIN data.frames |->
                                  ScaledEntry(data.frames[i], Scale1024)],
                          new_pages |-> <<>>,
                          page_index |-> 0]
               /\ UNCHANGED <<call, ret, args, disk, dirs, err, ops>>

\* Lines 143-150, one iteration: a new page saved and recorded.
SC_Page ==
    /\ pc = "sc_page"
    /\ LET out_name == PageName(Sheet1024, loc.page_index)
           im == loc.new_page_images[loc.page_index + 1]
       IN  /\ Write(InPath(out_name), ImageFile(im))
           /\ loc' = [loc EXCEPT
                        !.new_pages = Append(@, [image |-> out_name,
                                                 size |-> Size(im.w, im.h)]),
                        !.page_index = @ + 1]
    /\ pc' = IF loc.page_index + 1 < loc.page_count THEN "sc_page" ELSE "sc_index"
    /\ UNCHANGED <<call, ret, args, dirs, err>>

\* float(meta.get("scale") or 1.0)
ScaleOrOne(meta) == IF meta.scale[1] = 0 THEN One ELSE meta.scale

\* Lines 152-159: the new index written to sheet_1024.json.
SC_Index ==
    /\ pc = "sc_index"
    /\ Write(InPath(Sheet1024Json),
             [kind |-> "json",
              frames_kind |-> "list",
              frames |-> loc.new_frames,
              meta |-> [loc.meta EXCEPT
                          !.pages = loc.new_pages,
                          !.scale = Times(ScaleOrOne(loc.meta), Scale1024)]])
    /\ pc' = "done"
    /\ UNCHANGED <<call, ret, args, dirs, loc, err>>

\* build_1024_variant is called again on the same folder; the index the
\* first call wrote is kept for comparison.  `call.before` is the disk a run
\* started from.
SC_Rerun ==
    /\ pc = "done"
    /\ ret.run = 1
    /\ ret' = [run |-> 2, index |-> disk[InPath(Sheet1024Json)]]
    /\ call' = [before |-> disk]
    /\ pc' = "start"
    /\ loc' = [idx |-> 0]
    /\ ops' = <<>>
    /\ UNCHANGED <<args, disk, dirs, err>>

MaxPages == 2       \* pages of a source index
MaxPageDim == 3     \* page widths and heights range over 1 .. MaxPageDim
MaxCoord == 3       \* x, y, w, h of the first frame range over 0 .. MaxCoord

ScaleFaults ==
    {"none", "no_json", "no_pages", "no_frames", "page_no_name",
     "missing_page", "page_corrupt", "no_rect", "null_field"}

\* The folder of a multi-page atlas: sheet.json and its pages
\* <prefix>_NN.webp of size pw x ph.  The first frame has the rectangle
\* `rect` on page 0, the second covers the last page.
ScaleDisk(count, pw, ph, declared, prefix, rect, scale, fault) ==
    LET PageAt(i) ==
            [image |-> IF fault = "page_no_name" /\ i = count THEN <<>>
                       ELSE PageName(prefix, i - 1),
             size |-> IF declared THEN Size(pw, ph) ELSE Size(0, 0)]
        first == OutEntry(FrameName(0), 0, rect[1], rect[2], rect[3], rect[4],
                          Rect(0, 0, pw, ph), Size(pw, ph))
        probe == IF fault = "no_rect"
                 THEN [k \in DOMAIN first \ {"frame"} |-> first[k]]
                 ELSE IF fault = "null_field"
                 THEN [first EXCEPT !.frame = [x |-> <<>>, y |-> <<rect[2]>>,
                                               w |-> <<rect[3]>>, h |-> <<>>]]
                 ELSE first
        json == [kind |-> "json",
                 frames_kind |-> "list",
                 frames |-> IF fault = "no_frames" THEN <<>>
                            ELSE <<probe,
                                   OutEntry(FrameName(1), count - 1, 0, 0, pw, ph,
                                            Rect(0, 0, pw, ph), Size(pw, ph))>>,
                 meta |-> [image |-> <<>>,
                           pages |-> IF fault = "no_pages" THEN <<>>
                                     ELSE [i \in 1 .. count |-> PageAt(i)],
                           frame_count |-> 2,
                           cols |-> 1,
                           rows |-> 1,
                           frame_size |-> Size(pw, ph),
                           original_frame_size |-> Size(pw, ph),
                           scale |-> scale]]
        pages == {<<InDir, PageName(prefix, i - 1)>> :
                     i \in (1 .. count) \ (IF fault = "missing_page" THEN {count} ELSE {})}
        paths == pages \cup (IF fault = "no_json" THEN {} ELSE {<<InDir, SheetJson>>})
    IN  [q \in paths |->
            IF q[2] = SheetJson THEN json
            ELSE [kind |-> "image",
                  ok |-> ~(fault = "page_corrupt" /\ q[2] = PageName(prefix, count - 1)),
                  im |-> Pattern(pw, ph, 0)]]

\* The prefixes the pages of the source index may carry.
ScalePrefixes == {SheetStem, Sheet1024}

\* The scales a source index may record: none, 1.0, 0.5.
ScaleValues == {<<0, 1>>, One, <<1, 2>>}

DefaultRect == <<0, 0, 1, 1>>

\* Rectangles other than the default one are run on one declared 2 x 2 page
\* of prefix sheet and scale 1.0 without fault.
ScaleInit ==
    /\ ret = [run |-> 1]
    /\ pc = "start"
    /\ loc = [idx |-> 0]
    /\ err = NoError
    /\ ops = <<>>
    /\ dirs = {InDir}
    /\ args = [mode |-> "build_1024_variant", input_folder |-> InDir, out_dir |-> InDir]
    /\ \E count \in 1 .. MaxPages, pw \in 1 .. MaxPageDim, ph \in 1 .. MaxPageDim,
          declared \in BOOLEAN, prefix \in ScalePrefixes,
          rect \in (0 .. MaxCoord) \X (0 .. MaxCoord) \X (0 .. MaxCoord) \X (0 .. MaxCoord),
          scale \in ScaleValues, fault \in ScaleFaults :
        /\ \/ rect = DefaultRect
           \/ /\ count = 1 /\ pw = 2 /\ ph = 2 /\ declared /\ prefix = SheetStem
              /\ scale = One /\ fault = "none"
        /\ disk = ScaleDisk(count, pw, ph, declared, prefix, rect, scale, fault)
    /\ call = [before |-> disk]

ScaleNext == SC_Begin \/ SC_Page \/ SC_Index \/ SC_Rerun

SpecScale == ScaleInit /\ [][ScaleNext]_vars

\* The index a run read and the index it wrote.
SourceIndex == call.before[InPath(SheetJson)]

ScaledIndex == disk[InPath(Sheet1024Json)]

\* Half of v >= 0 rounded to the nearest integer, an exact half to the even one.
HalfEven(v) ==
    IF v % 2 = 0 THEN v \div 2
    ELSE IF ((v - 1) \div 2) % 2 = 0 THEN (v - 1) \div 2 ELSE (v + 1) \div 2

\* The number a source rectangle holds under key k, 0 when it holds none.
Coord(entry, k) ==
    IF "frame" \in DOMAIN entry /\ k \in DOMAIN entry.frame /\ entry.frame[k] # <<>>
    THEN entry.frame[k][1] ELSE 0

\* The size of a source page: the size the index declares or, failing that,
\* the size of the page image the run started from.
PageDim(page, k) ==
    IF page.size[k] # 0 THEN page.size[k]
    ELSE call.before[InPath(page.image)].im[k]

\* C14: with s = 0.5 every frame rectangle (x, y, w, h) becomes
\* x' = round(x*s), y' = round(y*s), w' = max(1, round((x+w)*s) - round(x*s)),
\* h' = max(1, round((y+h)*s) - round(y*s)), halves going to the even
\* integer, and every page of size pw x ph gets the size
\* max(1, round(pw*s)) x max(1, round(ph*s)).
C14_EdgesRounded ==
    pc = "done" =>
        /\ \A i \in DOMAIN SourceIndex.frames :
            LET e == SourceIndex.frames[i]
                x == Coord(e, "x")
                y == Coord(e, "y")
                w == Coord(e, "w")
                h == Coord(e, "h")
            IN  ScaledIndex.frames[i].frame =
                    Rect(HalfEven(x), HalfEven(y),
                         Max(1, HalfEven(x + w) - HalfEven(x)),
                         Max(1, HalfEven(y + h) - HalfEven(y)))
        /\ \A i \in DOMAIN SourceIndex.meta.pages :
            LET page == SourceIndex.meta.pages[i]
            IN  /\ ScaledIndex.meta.pages[i].size =
                       Size(Max(1, HalfEven(PageDim(page, "w"))),
                            Max(1, HalfEven(PageDim(page, "h"))))
                /\ disk[InPath(ScaledIndex.meta.pages[i].image)].im.w
                       = Max(1, HalfEven(PageDim(page, "w")))
                /\ disk[InPath(ScaledIndex.meta.pages[i].image)].im.h
                       = Max(1, HalfEven(PageDim(page, "h")))

\* The rectangle (3, 1, 1, 2): x = 3 goes to 2 (1.5 to the even integer), the
\* width round(2.0) - round(1.5) = 0 is clamped to 1, y = 1 goes to 0 (0.5 to
\* the even integer), the height is round(1.5) - round(0.5) = 2.
C14_Witness ==
    /\ pc = "done"
    /\ SourceIndex.frames[1].frame = Rect(3, 1, 1, 2)
    /\ ScaledIndex.frames[1].frame = Rect(2, 0, 1, 2)
    /\ ScaledIndex.meta.pages[1].size = Size(1, 1)

\* C15: the downscaled index keeps the pages and the frame entries of its
\* source in number and order; every entry keeps its filename, its page and
\* every other field but the rectangle; meta keeps cols, rows, frame_count and
\* every other field but pages and scale.
C15_StructureKept ==
    pc = "done" =>
        /\ Len(ScaledIndex.meta.pages) = Len(SourceIndex.meta.pages)
        /\ \A i \in DOMAIN ScaledIndex.meta.pages :
              ScaledIndex.meta.pages[i].image = PageName(Sheet1024, i - 1)
        /\ Len(ScaledIndex.frames) = Len(SourceIndex.frames)
        /\ \A i \in DOMAIN SourceIndex.frames :
              /\ DOMAIN ScaledIndex.frames[i] = DOMAIN SourceIndex.frames[i] \cup {"frame"}
              /\ \A k \in DOMAIN SourceIndex.frames[i] \ {"frame"} :
                    ScaledIndex.frames[i][k] = SourceIndex.frames[i][k]
        /\ DOMAIN ScaledIndex.meta = DOMAIN SourceIndex.meta
        /\ \A k \in DOMAIN SourceIndex.meta \ {"pages", "scale"} :
              ScaledIndex.meta[k] = SourceIndex.meta[k]

\* A two-page index: the second frame stays on page 1 under its name.
C15_Witness ==
    /\ pc = "done"
    /\ Len(SourceIndex.meta.pages) = 2 /\ Len(ScaledIndex.meta.pages) = 2
    /\ SourceIndex.frames[2].page = 1 /\ ScaledIndex.frames[2].page = 1
    /\ ScaledIndex.frames[2].filename = FrameName(1)
    /\ ScaledIndex.meta.cols = 1 /\ ScaledIndex.meta.frame_count = 2

\* The page images a source index names.
SourcePages ==
    IF InPath(SheetJson) \in DOMAIN call.before
    THEN {InPath(SourceIndex.meta.pages[i].image) : i \in DOMAIN SourceIndex.meta.pages}
    ELSE {}

\* C16: a run leaves sheet.json and every page its index names as they were
\* before the run; it writes only sheet_1024.json and sheet_1024_NN.webp, and
\* none of the files it writes is a source page.
C16_InputsUntouched ==
    /\ \A q \in (SourcePages \cup {InPath(SheetJson)}) \cap DOMAIN call.before :
          q \in DOMAIN disk /\ disk[q] = call.before[q]
    /\ \A k \in DOMAIN ops :
          ops[k].op = "write" =>
              /\ ops[k].path[2] \in {Sheet1024Json} \cup {PageName(Sheet1024, n) : n \in 0 .. 99}
              /\ ops[k].path \notin SourcePages

\* C17: a second run on the same folder writes the sheet_1024.json the first
\* run wrote: rectangles, page sizes and meta.scale are the same.
C17_RerunSameIndex ==
    (ret.run = 2 /\ pc = "done") => ScaledIndex = ret.index

----------------------------------------------------------------------------
(* The batch drivers: main of src/build_completed_overlay_atlases.py 21-42  *)
(* and main of src/scale_completed_overlay_atlases_1024.py 168-182.  Each   *)
(* calls its builder on three folders in turn; the builder's run is the run *)
(* modelled above, on the folder the driver passes.                         *)

\* completed-species-info, -name, -image
Targets == <<"info", "name", "image">>

\* The driver of build_completed_overlay_atlases.py passes max_dim = 2048;
\* the frames of the model being 1 x 1, DriverMaxDim stands for it.
DriverMaxDim == 2

Drivers == {"build_completed_overlay_atlases", "scale_completed_overlay_atlases_1024"}

\* What a target folder holds: a well-formed atlas, no sheet.json, or an
\* index whose image is missing.
FolderKinds == {"ok", "no_json", "no_image"}

\* The files of the model's input folder, moved to `folder`.
InFolder(folder, d) ==
    [q \in {<<folder, r[2]>> : r \in DOMAIN d} |-> d[<<InDir, q[2]>>]]

Merge(f, g) ==
    [q \in DOMAIN f \cup DOMAIN g |-> IF q \in DOMAIN f THEN f[q] ELSE g[q]]

\* A target folder of the paging driver: a legacy sheet of two 1 x 1 frames.
LegacyFolder(folder, kind) ==
    InFolder(folder,
             SheetDisk(2, <<1, 1>>, TRUE, 0, [at |-> 0, kind |-> IF kind = "ok" THEN "none" ELSE kind],
                       DefaultPlace))

\* A target folder of the scaling driver: a one-page atlas.
AtlasFolder(folder, kind) ==
    InFolder(folder,
             ScaleDisk(1, 2, 2, TRUE, SheetStem, DefaultRect, One,
                       CASE kind = "ok" -> "none"
                         [] kind = "no_json" -> "no_json"
                         [] kind = "no_image" -> "missing_page"))

BatchInit ==
    /\ \E driver \in Drivers, kinds \in [1 .. Len(Targets) -> FolderKinds] :
        /\ call = [driver |-> driver, i |-> 0, status |-> "running"]
        /\ LET Folder(i) == IF driver = "build_completed_overlay_atlases"
                            THEN LegacyFolder(Targets[i], kinds[i])
                            ELSE AtlasFolder(Targets[i], kinds[i])
           IN  disk = Merge(Folder(1), Merge(Folder(2), Folder(3)))
    /\ dirs = {Targets[i] : i \in DOMAIN Targets}
    /\ args = [mode |-> "none"]
    /\ ret = [run |-> 0]
    /\ pc = "main"
    /\ loc = [idx |-> 0]
    /\ err = NoError
    /\ ops = <<>>

\* for folder in targets: the builder is called on the next folder, at the
\* start of main or when the call on the folder before has returned.
D_NextFolder ==
    /\ call.status = "running"
    /\ pc \in {"main", "done"}
    /\ call.i < Len(Targets)
    /\ call' = [call EXCEPT !.i = @ + 1]
    /\ args' = IF call.driver = "build_completed_overlay_atlases"
               THEN [mode |-> "from_sheet",
                     input_folder |-> Targets[call.i + 1],
                     out_dir |-> Targets[call.i + 1],
                     prefix |-> SheetStem, max_dim |-> DriverMaxDim,
                     delete_old_single |-> FALSE]
               ELSE [mode |-> "build_1024_variant",
                     input_folder |-> Targets[call.i + 1],
                     out_dir |-> Targets[call.i + 1]]
    /\ pc' = "start"
    /\ loc' = [idx |-> 0]
    /\ UNCHANGED <<ret, disk, dirs, err, ops>>

\* The loop is over: print("Done.").
D_Done ==
    /\ call.status = "running"
    /\ pc = "done"
    /\ call.i = Len(Targets)
    /\ call' = [call EXCEPT !.status = "done"]
    /\ pc' = "exit"
    /\ UNCHANGED <<ret, args, disk, dirs, loc, err, ops>>

\* The builder raised: nothing in main catches the exception, main ends
\* with it.
D_Abort ==
    /\ call.status = "running"
    /\ pc = "error"
    /\ call' = [call EXCEPT !.status = "failed"]
    /\ pc' = "exit"
    /\ UNCHANGED <<ret, args, disk, dirs, loc, err, ops>>

BatchNext ==
    \/ D_NextFolder
    \/ D_Done
    \/ D_Abort
    \/ FS_Begin
    \/ FS_Paste
    \/ FS_Save
    \/ FS_Index
    \/ FS_Delete
    \/ SC_Begin
    \/ SC_Page
    \/ SC_Index

SpecBatch == BatchInit /\ [][BatchNext]_vars

\* C18: a driver that has ended has called its builder on every folder of
\* its list, whether or not the call on an earlier folder raised.
C18_EveryFolderProcessed ==
    call.status # "running" => call.i = Len(Targets)

----------------------------------------------------------------------------
(* make_sprite_sheet  (src/build_spritesheet.py 65-151): the layout, the    *)
(* scale and the sizes it writes.  An optional argument is <<>> for None    *)
(* and <<n>> for the integer n.  The scale factors, floats in the code, are *)
(* fractions <<numerator, denominator>>; within the bounds of the model the *)
(* float products round as the exact ones do.                               *)

\* math.ceil(math.sqrt(n)) for n >= 1
CeilSqrt(n) == CHOOSE c \in 1 .. n : c * c >= n /\ (c - 1) * (c - 1) < n

\* math.ceil(a / b) for b > 0
CeilDiv(a, b) == FloorDiv(a + b - 1, b)

\* choose_layout, lines 50-62
choose_layout(num_frames, forced_cols) ==
    LET cols == IF forced_cols # <<>> /\ forced_cols[1] > 0
                THEN Min(forced_cols[1], num_frames)
                ELSE CeilSqrt(num_frames)
    IN  [cols |-> cols, rows |-> CeilDiv(num_frames, cols)]

\* The larger of two scale factors.
FracMax(f, g) == IF f[1] * g[2] >= g[1] * f[2] THEN f ELSE g

\* min(scale_for_max_dim, scale_for_target), line 103
FracMin(f, g) == IF f[1] * g[2] <= g[1] * f[2] THEN f ELSE g

\* Lines 72-114 and 139-148: the metadata make_sprite_sheet writes for
\* num_frames frames of frame_w x frame_h, and with it the size of the sheet.
make_sprite_sheet(frame_w, frame_h, num_frames, cols, max_dim, target_frame_size) ==
    LET lay == choose_layout(num_frames, cols)
        max_sheet_dim == Max(frame_w * lay.cols, frame_h * lay.rows)
        scale_for_max_dim == IF max_sheet_dim > max_dim
                             THEN <<max_dim, max_sheet_dim>> ELSE One
        scale_for_target == IF target_frame_size # <<>>
                            THEN <<target_frame_size[1], Max(frame_w, frame_h)>>
                            ELSE One
        scale == FracMin(scale_for_max_dim, scale_for_target)
        new_frame_w == Max(1, round(frame_w * scale[1], scale[2]))
        new_frame_h == Max(1, round(frame_h * scale[1], scale[2]))
    IN  [columns |-> lay.cols,
         rows |-> lay.rows,
         frameCount |-> num_frames,
         frameWidth |-> new_frame_w,
         frameHeight |-> new_frame_h,
         sheetWidth |-> new_frame_w * lay.cols,
         sheetHeight |-> new_frame_h * lay.rows]

SprMaxFrame == 3    \* frame widths and heights range over 1 .. SprMaxFrame
SprMaxFrames == 9   \* the folder holds 1 .. SprMaxFrames frames
SprMaxCols == 3     \* --cols is absent or in 0 .. SprMaxCols
SprMaxDim == 8      \* --max-dim ranges over 1 .. SprMaxDim
SprMaxTarget == 4   \* --frame-size is absent or in 0 .. SprMaxTarget

Optional(S) == {<<>>} \cup {<<n>> : n \in S}

SpriteInit ==
    /\ call \in [fn : {"make_sprite_sheet"},
                 frame_w : 1 .. SprMaxFrame,
                 frame_h : 1 .. SprMaxFrame,
                 num_frames : 1 .. SprMaxFrames,
                 cols : Optional(0 .. SprMaxCols),
                 max_dim : 1 .. SprMaxDim,
                 target_frame_size : Optional(0 .. SprMaxTarget)]
    /\ ret = Pending
    /\ args = Idle /\ disk = Idle /\ dirs = Idle /\ pc = Idle
    /\ loc = Idle /\ err = Idle /\ ops = Idle

\* The call: the sheet image saved with its size, the metadata written.
SpriteCall ==
    /\ ret = Pending
    /\ \E meta \in {make_sprite_sheet(call.frame_w, call.frame_h, call.num_frames,
                                      call.cols, call.max_dim, call.target_frame_size)} :
          ret' = [meta |-> meta, sheet |-> Size(meta.sheetWidth, meta.sheetHeight)]
    /\ UNCHANGED <<call, args, disk, dirs, pc, loc, err, ops>>

SpriteNext == SpriteCall

SpecSprite == SpriteInit /\ [][SpriteNext]_vars

\* C19: the sheet make_sprite_sheet writes is at most max_dim wide and high.
C19_SheetWithinMaxDim ==
    ret # Pending =>
        /\ ret.sheet.w <= call.max_dim /\ ret.sheet.h <= call.max_dim
        /\ ret.meta.sheetWidth <= call.max_dim /\ ret.meta.sheetHeight <= call.max_dim

\* The target frame size is larger than the largest side of the frames.
TargetAboveNative ==
    /\ call.target_frame_size # <<>>
    /\ call.target_frame_size[1] > Max(call.frame_w, call.frame_h)

----------------------------------------------------------------------------
(* Re-paging in place: build_multi_atlas(mode from_sheet, out_dir = input   *)
(* folder) on legacy indexes whose metadata and rectangles vary, called a   *)
(* second time on the folder the first call left.  `call.before` is the     *)
(* folder before the first call.                                            *)

MaxRepage == 3      \* entries of a legacy index that is re-paged in place

\* An opaque image whose pixels all differ: pixel (x, y) has the colour
\* 1 + x + w * y.
Numbered(w, h) ==
    [w |-> w, h |-> h, px |-> [p \in Coords(w, h) |-> <<1 + p[1] + w * p[2], 255>>]]

\* What may be unusual in a legacy index: the declared frame size (0 for a
\* missing key), the declared frame count (0 for a missing key), an image
\* name that is the name of the first page, an entry without its rectangle,
\* with a null in it or without the rectangle's w.
NoFault == [at |-> 0, kind |-> "none"]

Usual(n, size) ==
    [declared |-> size, frame_count |-> n, alias |-> FALSE, fault |-> NoFault]

\* The usual index and every index that departs from it in one respect.
Variations(n, size) ==
    {Usual(n, size)}
        \cup {[Usual(n, size) EXCEPT !.declared = d] :
                 d \in (0 .. MaxFrameDim) \X (0 .. MaxFrameDim)}
        \cup {[Usual(n, size) EXCEPT !.frame_count = c] : c \in {0, n + 1}}
        \cup {[Usual(n, size) EXCEPT !.alias = TRUE]}
        \cup {[Usual(n, size) EXCEPT !.fault = f] :
                 f \in [at : 1 .. n, kind : {"no_rect", "no_w", "null_field"}]}

RepageEntry(i, rw, rh, fault) ==
    LET e == LegacyEntry(i, rw, rh, fault)
    IN  IF fault.at = i /\ fault.kind = "no_w"
        THEN [e EXCEPT !.frame = [k \in {"x", "y", "h"} |-> e.frame[k]]]
        ELSE e

\* The legacy folder: sheet.json and the single-sheet image, n tiles of
\* size[1] x size[2] in LegacyCols columns, under the name sheet.webp or, when
\* the index names it so, under the name of the first page.
RepageDisk(n, size, v, prefix) ==
    LET image_name == IF v.alias THEN PageName(prefix, 0) ELSE SheetWebp
        json == [kind |-> "json",
                 frames_kind |-> "list",
                 frames |-> [i \in 1 .. n |-> RepageEntry(i, size[1], size[2], v.fault)],
                 meta |-> [image |-> IF v.alias THEN image_name ELSE <<>>,
                           frame_count |-> v.frame_count,
                           frame_size |-> Size(v.declared[1], v.declared[2]),
                           original_frame_size |-> Size(0, 0),
                           scale |-> <<0, 1>>]]
    IN  [q \in {<<InDir, SheetJson>>, <<InDir, image_name>>} |->
            IF q[2] = SheetJson THEN json
            ELSE ImageFile(Numbered(LegacyCols * size[1],
                                    FloorDiv(n + LegacyCols - 1, LegacyCols) * size[2]))]

RepageInit ==
    /\ ret = [run |-> 1]
    /\ pc = "start"
    /\ loc = [idx |-> 0]
    /\ err = NoError
    /\ ops = <<>>
    /\ dirs = {InDir}
    /\ \E n \in 1 .. MaxRepage, size \in FrameSizes, prefix \in TwicePrefixes,
          max_dim \in 1 .. MaxDim, del \in BOOLEAN :
         \E v \in Variations(n, size) :
            /\ args = [mode |-> "from_sheet", input_folder |-> InDir, out_dir |-> InDir,
                       prefix |-> prefix, max_dim |-> max_dim, delete_old_single |-> del]
            /\ disk = RepageDisk(n, size, v, prefix)
    /\ call = [before |-> disk]

RepageNext == FS_Begin \/ FS_Paste \/ FS_Save \/ FS_Index \/ FS_Delete \/ Rerun

SpecRepage == RepageInit /\ [][RepageNext]_vars

\* The legacy index and the legacy image the first call started from.
LegacyIndex == call.before[InPath(SheetJson)]

LegacyIm ==
    LET named == IF LegacyIndex.meta.image # <<>> THEN LegacyIndex.meta.image ELSE SheetWebp
    IN  call.before[InPath(named)].im

FirstRun == ret.run = 1

\* The entry has no source rectangle, or its rectangle lacks one of x, y, w, h.
LacksRect(entry) ==
    \/ "frame" \notin DOMAIN entry
    \/ \E k \in {"x", "y", "w", "h"} : k \notin DOMAIN entry.frame

\* C21: a legacy index with an entry that lacks its source rectangle, or one
\* of the rectangle's x, y, w, h, is malformed input: the run pastes no
\* default rectangle in its place, goes on to no page and no index, and writes
\* nothing.
C21_MissingRectAborts ==
    (FirstRun /\ \E i \in DOMAIN LegacyIndex.frames : LacksRect(LegacyIndex.frames[i])) =>
        /\ NoWrite
        /\ pc \in {"start", "fs_paste", "error"}
        /\ pc = "fs_paste" =>
              \A i \in 1 .. Len(loc.out_frames) : ~LacksRect(LegacyIndex.frames[i])

\* C22: the frame size of the new grid is the declared meta.frame_size when
\* that holds a positive width and height; otherwise it is the size of the
\* first entry's rectangle, width and height together; when that is not
\* positive either the run fails for want of a frame size.
C22_FrameSizeChosenTogether ==
    (FirstRun /\ pc # "start") =>
        LET declared == LegacyIndex.meta.frame_size
            first == Size(Coord(LegacyIndex.frames[1], "w"),
                          Coord(LegacyIndex.frames[1], "h"))
            chosen == IF declared.w > 0 /\ declared.h > 0 THEN declared ELSE first
        IN  IF chosen.w > 0 /\ chosen.h > 0
            THEN /\ "frame_w" \in DOMAIN loc
                 /\ Size(loc.frame_w, loc.frame_h) = chosen
            ELSE pc = "error" /\ err.kind = "no_frame_size"

\* The pixels of a rectangle of an image.
TileAt(im, rect) ==
    Crop(im, rect.x[1], rect.y[1], rect.x[1] + rect.w[1], rect.y[1] + rect.h[1])

\* The legacy image is sheet.webp and every entry of the legacy index holds a
\* whole rectangle of the declared frame size.
WellFormedLegacy ==
    /\ LegacyIndex.meta.image = <<>>
    /\ \A i \in DOMAIN LegacyIndex.frames :
        /\ FullRect(LegacyIndex.frames[i])
        /\ LegacyIndex.frames[i].frame.w = <<LegacyIndex.meta.frame_size.w>>
        /\ LegacyIndex.frames[i].frame.h = <<LegacyIndex.meta.frame_size.h>>

\* C23: re-paging in place with delete_old_single false can be repeated: the
\* second run does not fail, and after every run each frame's tile at its
\* recorded page and rectangle is that frame's tile of the original legacy
\* atlas.
C23_RepagingRepeatable ==
    (WellFormedLegacy /\ ~args.delete_old_single) =>
        /\ pc # "error"
        /\ pc = "done" =>
            /\ Len(NewIndex.frames) = Len(LegacyIndex.frames)
            /\ \A i \in DOMAIN LegacyIndex.frames :
                LET e == NewIndex.frames[i]
                    page == disk[OutPath(NewIndex.meta.pages[e.page + 1].image)].im
                IN  TileAt(page, e.frame) = TileAt(LegacyIm, LegacyIndex.frames[i].frame)

\* C25: in the index a run has written, meta.frame_count is the number of
\* entries of "frames", whatever frame_count the legacy index declared.
C25_FrameCountIsLength ==
    IndexWritten => NewIndex.meta.frame_count = Len(NewIndex.frames)

\* C27: every pasted tile occupies exactly its recorded rectangle: the
\* recorded w and h are the width and height of the rectangle cropped from the
\* legacy atlas, and once all tiles are pasted the pixels of each recorded
\* rectangle are the pixels of its tile.
C27_TileFillsItsRect ==
    AllPasted =>
        \A i \in DOMAIN loc.frames :
            FullRect(loc.frames[i]) =>
                LET e == loc.out_frames[i]
                IN  /\ e.frame.w = loc.frames[i].frame.w
                    /\ e.frame.h = loc.frames[i].frame.h
                    /\ TileAt(loc.page_images[e.page + 1], e.frame)
                           = TileAt(loc.sheet_im, loc.frames[i].frame)

\* C29: after a run that ended without error every page image the new index
\* names exists in out_dir, with delete_old_single true or false.
C29_PagesSurviveDelete ==
    pc = "done" =>
        \A i \in DOMAIN NewIndex.meta.pages :
            /\ Exists(OutPath(NewIndex.meta.pages[i].image))
            /\ disk[OutPath(NewIndex.meta.pages[i].image)].kind = "image"

----------------------------------------------------------------------------
(* Properties of every index the pager writes *)

\* Two rectangles share no pixel.
Disjoint(a, b) ==
    \/ a.x[1] + a.w[1] <= b.x[1] \/ b.x[1] + b.w[1] <= a.x[1]
    \/ a.y[1] + a.h[1] <= b.y[1] \/ b.y[1] + b.h[1] <= a.y[1]

\* C24: in the index a run of either mode has written, every frame's page is
\* an index into meta.pages, every page of meta.pages holds a frame, every
\* frame rectangle lies inside its page (inside the declared size, which is
\* the size of the page image on disk), and no two frames of a page overlap.
C24_PlacementWellFormed ==
    IndexWritten =>
        LET idx == NewIndex
            pages == idx.meta.pages
        IN  /\ \A i \in DOMAIN idx.frames : idx.frames[i].page \in 0 .. (Len(pages) - 1)
            /\ \A q \in DOMAIN pages : \E i \in DOMAIN idx.frames : idx.frames[i].page = q - 1
            /\ \A q \in DOMAIN pages :
                  Exists(OutPath(pages[q].image)) =>
                      /\ disk[OutPath(pages[q].image)].im.w = pages[q].size.w
                      /\ disk[OutPath(pages[q].image)].im.h = pages[q].size.h
            /\ \A i \in DOMAIN idx.frames :
                  LET r == idx.frames[i].frame
                      size == pages[idx.frames[i].page + 1].size
                  IN  /\ r.x[1] >= 0 /\ r.y[1] >= 0 /\ r.w[1] >= 1 /\ r.h[1] >= 1
                      /\ r.x[1] + r.w[1] <= size.w
                      /\ r.y[1] + r.h[1] <= size.h
            /\ \A i, j \in DOMAIN idx.frames :
                  (i # j /\ idx.frames[i].page = idx.frames[j].page) =>
                      Disjoint(idx.frames[i].frame, idx.frames[j].frame)

\* Three legacy frames of 1 x 2 re-paged at max_dim 2: two side by side on
\* page 0, the third on page 1.
C24_Witness ==
    /\ FromSheet /\ pc = "done"
    /\ Len(NewIndex.frames) = 3 /\ Len(NewIndex.meta.pages) = 2
    /\ NewIndex.meta.pages[1].size = Size(2, 2)
    /\ NewIndex.frames[1].frame = Rect(0, 0, 1, 2) /\ NewIndex.frames[1].page = 0
    /\ NewIndex.frames[2].frame = Rect(1, 0, 1, 2) /\ NewIndex.frames[2].page = 0
    /\ NewIndex.frames[3].frame = Rect(0, 0, 1, 2) /\ NewIndex.frames[3].page = 1

\* Every frame rectangle of the index has the size meta.frame_size.
FrameSizeAgrees(index) ==
    \A i \in DOMAIN index.frames :
        /\ FullRect(index.frames[i])
        /\ index.frames[i].frame.w = <<index.meta.frame_size.w>>
        /\ index.frames[i].frame.h = <<index.meta.frame_size.h>>

\* C26: in sheet_1024.json, written from a sheet.json whose meta.frame_size
\* is the size of every frame rectangle, meta.frame_size is again the size of
\* every frame rectangle.
C26_FrameSizeMatchesRects ==
    (pc = "done" /\ FrameSizeAgrees(SourceIndex)) => FrameSizeAgrees(ScaledIndex)

----------------------------------------------------------------------------
(* The rectangles of build_1024_variant on their own: one page of a source  *)
(* index and two frames of it that share an edge, the second to the right   *)
(* of the first or below it, both inside the page.                          *)

MaxEdgePage == 5    \* page widths and heights range over 1 .. MaxEdgePage

\* The rectangles of size >= 1 inside a pw x ph page.
RectsInside(pw, ph) ==
    {r \in (0 .. pw) \X (0 .. ph) \X (1 .. pw) \X (1 .. ph) :
        r[1] + r[3] <= pw /\ r[2] + r[4] <= ph}

\* The rectangles inside the page that share the right edge of r, over the
\* same rows, or its bottom edge, over the same columns.
Neighbours(r, pw, ph) ==
    {[dir |-> "right", rect |-> <<r[1] + r[3], r[2], w, r[4]>>] :
        w \in 1 .. (pw - (r[1] + r[3]))}
    \cup {[dir |-> "below", rect |-> <<r[1], r[2] + r[4], r[3], h>>] :
        h \in 1 .. (ph - (r[2] + r[4]))}

EdgeEntry(k, r) ==
    [filename |-> FrameName(k), page |-> 0, frame |-> Rect(r[1], r[2], r[3], r[4])]

EdgesInit ==
    /\ \E pw \in 1 .. MaxEdgePage, ph \in 1 .. MaxEdgePage :
         \E r \in RectsInside(pw, ph) :
           \E nb \in Neighbours(r, pw, ph) :
              call = [fn |-> "build_1024_variant",
                      page |-> [image |-> PageName(SheetStem, 0), size |-> Size(pw, ph)],
                      a |-> EdgeEntry(0, r),
                      b |-> EdgeEntry(1, nb.rect),
                      dir |-> nb.dir]
    /\ ret = Pending
    /\ args = Idle /\ disk = Idle /\ dirs = Idle /\ pc = Idle
    /\ loc = Idle /\ err = Idle /\ ops = Idle

\* Lines 115-150 on the page and the two entries: the size of the new page
\* and the two new rectangles.
EdgesCall ==
    /\ ret = Pending
    /\ \E im \in {ScaledPage(call.page, NewImage(call.page.size.w, call.page.size.h),
                             Scale1024)} :
          ret' = [size |-> Size(im.w, im.h),
                  a |-> ScaledEntry(call.a, Scale1024).frame,
                  b |-> ScaledEntry(call.b, Scale1024).frame]
    /\ UNCHANGED <<call, args, disk, dirs, pc, loc, err, ops>>

EdgesNext == EdgesCall

SpecEdges == EdgesInit /\ [][EdgesNext]_vars

\* The rectangle lies inside a page of the size.
Inside(r, size) ==
    /\ r.x[1] >= 0 /\ r.y[1] >= 0
    /\ r.x[1] + r.w[1] <= size.w
    /\ r.y[1] + r.h[1] <= size.h

\* C28: for frames of width and height >= 1 inside their page, every
\* downscaled rectangle lies inside the downscaled page, and two frames that
\* shared an edge still share it: the right edge of the first is the left
\* edge of the second, or the bottom edge of the first the top edge of the
\* second.
C28_InsideAndAdjacent ==
    ret # Pending =>
        /\ Inside(ret.a, ret.size)
        /\ Inside(ret.b, ret.size)
        /\ call.dir = "right" => ret.a.x[1] + ret.a.w[1] = ret.b.x[1]
        /\ call.dir = "below" => ret.a.y[1] + ret.a.h[1] = ret.b.y[1]

----------------------------------------------------------------------------
(* batch_optimize_glb  (src/game-assets/sub/full_q_fish/batch_optimize_glb.py) *)
(* main discovers the .glb files under the root and submits one optimize_one   *)
(* per file to a pool of worker threads; a worker runs gltfpack on its file.   *)
(* A directory is the sequence of its path components; `call` holds the tasks  *)
(* of the pool in submission order, `loc` the locals of main.                  *)

DotGlb == <<".", "g", "l", "b">>

\* Path.stem: the name without its last suffix.
PathStem(name) ==
    LET d == LastDot(name, Len(name))
    IN  IF d <= 1 THEN name ELSE SubSeq(name, 1, d - 1)

\* src.stem + "_OPT.glb", line 33
DstName(name) == PathStem(name) \o <<"_", "O", "P", "T">> \o DotGlb

\* src.stem + "_OPT.report.json", line 34
ReportName(name) ==
    PathStem(name) \o <<"_", "O", "P", "T", ".", "r", "e", "p", "o", "r", "t",
                        ".", "j", "s", "o", "n">>

SummaryName == <<"g", "l", "t", "f", "p", "a", "c", "k", "_", "b", "a", "t", "c", "h",
                 "_", "s", "u", "m", "m", "a", "r", "y", ".", "j", "s", "o", "n">>

RootDir == <<"root">>

SubDir == <<"root", "sub">>

OutRoot == <<"out">>

\* root.rglob("*.glb") restricted to files, line 108: the files below the
\* root, at any depth, whose name ends in .glb.
Discovered ==
    {q \in DOMAIN disk :
        /\ Len(q[1]) >= Len(RootDir) /\ SubSeq(q[1], 1, Len(RootDir)) = RootDir
        /\ EndsWith(q[2], DotGlb)}

\* outdir_for, lines 117-123: the file's folder or, with --out-dir, the
\* folder of the same relative path below it.
outdir_for(p) ==
    IF args.out_dir # <<>>
    THEN args.out_dir[1] \o SubSeq(p[1], Len(RootDir) + 1, Len(p[1]))
    ELSE p[1]

\* Lines 107-142: the files discovered, in the order the file system lists
\* them, and one task submitted per file; sys.exit(0) when there is none.
G_Discover ==
    /\ pc = "start"
    /\ \E glbs \in ListingOrders(Discovered) :
        /\ loc' = [glbs |-> glbs, results |-> <<>>]
        /\ call' = [i \in DOMAIN glbs |->
                       [src |-> glbs[i], out_dir |-> outdir_for(glbs[i]),
                        state |-> "queued", dst |-> <<>>, report |-> <<>>,
                        input |-> <<>>, result |-> <<>>]]
        /\ pc' = IF glbs = <<>> THEN "done" ELSE "pool"
    /\ UNCHANGED <<ret, args, disk, dirs, err, ops>>

Running == {i \in DOMAIN call : call[i].state = "running"}

\* A free worker takes the next task of the queue: optimize_one, lines 32-67,
\* up to the start of gltfpack, which reads its input.
G_Start(i) ==
    /\ pc = "pool"
    /\ call[i].state = "queued"
    /\ \A j \in 1 .. (i - 1) : call[j].state # "queued"
    /\ Cardinality(Running) < args.workers
    /\ call' = [call EXCEPT ![i] =
                   [@ EXCEPT !.state = "running",
                             !.dst = <<call[i].out_dir, DstName(call[i].src[2])>>,
                             !.report = <<call[i].out_dir, ReportName(call[i].src[2])>>,
                             !.input = disk[call[i].src]]]
    /\ dirs' = dirs \cup {call[i].out_dir}
    /\ UNCHANGED <<ret, args, disk, pc, loc, err, ops>>

\* gltfpack ends, having written its output and its report; optimize_one
\* returns its result, lines 67-81.
G_Finish(i) ==
    /\ pc = "pool"
    /\ call[i].state = "running"
    /\ disk' = WriteFile(WriteFile(disk, call[i].dst,
                                   [kind |-> "glb", packed |-> call[i].input]),
                         call[i].report, [kind |-> "report", of |-> call[i].src])
    /\ ops' = ops \o <<[op |-> "write", path |-> call[i].dst],
                       [op |-> "write", path |-> call[i].report]>>
    /\ call' = [call EXCEPT ![i] =
                   [@ EXCEPT !.state = "finished",
                             !.result = [file |-> call[i].src[2], exit_code |-> 0,
                                         output |-> call[i].dst,
                                         report |-> call[i].report]]]
    /\ UNCHANGED <<ret, args, dirs, pc, loc, err>>

\* Lines 144-145: as_completed yields a finished future, its result is
\* appended.
G_Collect(i) ==
    /\ pc = "pool"
    /\ call[i].state = "finished"
    /\ call' = [call EXCEPT ![i].state = "collected"]
    /\ loc' = [loc EXCEPT !.results = Append(@, call[i].result)]
    /\ UNCHANGED <<ret, args, disk, dirs, pc, err, ops>>

\* Lines 161-165: every future has been collected; the summary is written.
G_Summary ==
    /\ pc = "pool"
    /\ \A i \in DOMAIN call : call[i].state = "collected"
    /\ LET dir == IF args.out_dir # <<>> THEN args.out_dir[1] ELSE RootDir
       IN  Write(<<dir, SummaryName>>, [kind |-> "summary", results |-> loc.results])
    /\ pc' = "done"
    /\ UNCHANGED <<call, ret, args, dirs, loc, err>>

\* The script is run again on the same root with the same options.
G_Rerun ==
    /\ pc = "done"
    /\ ret.run = 1
    /\ ret' = [run |-> 2]
    /\ pc' = "start"
    /\ call' = <<>>
    /\ loc' = [glbs |-> <<>>, results |-> <<>>]
    /\ ops' = <<>>
    /\ UNCHANGED <<args, disk, dirs, err>>

MaxGlb == 2         \* .glb files below the root before the first run
MaxWorkers == 2     \* --workers ranges over 1 .. MaxWorkers

GlbName(stem) == stem \o DotGlb

\* The .glb files the root may hold: a.glb, b.glb, sub/a.glb, and a_OPT.glb,
\* the output of an earlier run on a.glb.
GlbPool ==
    {<<RootDir, GlbName(<<"a">>)>>, <<RootDir, GlbName(<<"b">>)>>,
     <<SubDir, GlbName(<<"a">>)>>, <<RootDir, DstName(GlbName(<<"a">>))>>}

Notes == <<RootDir, <<"n", ".", "t", "x", "t">>>>

GlbInit ==
    /\ ret = [run |-> 1]
    /\ pc = "start"
    /\ call = <<>>
    /\ loc = [glbs |-> <<>>, results |-> <<>>]
    /\ err = NoError
    /\ ops = <<>>
    /\ dirs = {RootDir, SubDir}
    /\ \E out_dir \in {<<>>, <<OutRoot>>}, workers \in 1 .. MaxWorkers :
          args = [root |-> RootDir, out_dir |-> out_dir, workers |-> workers]
    /\ \E files \in {S \in SUBSET GlbPool : Cardinality(S) <= MaxGlb} :
          disk = [q \in files \cup {Notes} |->
                     IF q = Notes THEN [kind |-> "text"] ELSE [kind |-> "glb", source |-> q]]

GlbNext ==
    \/ G_Discover
    \/ \E i \in DOMAIN call : G_Start(i)
    \/ \E i \in DOMAIN call : G_Finish(i)
    \/ \E i \in DOMAIN call : G_Collect(i)
    \/ G_Summary
    \/ G_Rerun

SpecGlb == GlbInit /\ [][GlbNext]_vars

\* The paths optimize_one writes for a task: its output and its report.
Outputs(t) ==
    {<<t.out_dir, DstName(t.src[2])>>, <<t.out_dir, ReportName(t.src[2])>>}

\* C30: in batch_optimize_glb no task's output path (its _OPT.glb or its
\* report) is the input path or an output path of another task of the same
\* run, on a first run and on a second run over what the first left, and the
\* summary of a finished run holds exactly one result per discovered file,
\* in whatever order the tasks completed.
C30_TasksIndependent ==
    /\ \A i, j \in DOMAIN call :
          i # j => Outputs(call[i]) \cap ({call[j].src} \cup Outputs(call[j])) = {}
    /\ (pc = "done" /\ loc.glbs # <<>>) =>
          /\ Len(loc.results) = Len(loc.glbs)
          /\ \A i \in DOMAIN call :
                Cardinality({k \in DOMAIN loc.results :
                                loc.results[k].output = call[i].dst}) = 1

====
